---- MODULE Spec2Model ----
(***************************************************************************)
(* A model of the UNO real-time engine: the card domain (utils.py), the    *)
(* room store and turn engine (game_manager.py), the view projector and    *)
(* the connection handler (main.py) and the connection registry            *)
(* (connection_manager.py).                                                *)
(*                                                                         *)
(* Encoding of Python values:                                              *)
(*   - a str that the code slices or indexes (a card token, a colour) is a *)
(*     sequence of one-character strings: "R-D2" is <<"R","-","D","2">>;   *)
(*   - a str that is only compared (ids, actions, states, event types) is  *)
(*     a TLA+ string;                                                      *)
(*   - Optional[x] is None == <<>> or Some(x) == <<x>> where x is an int   *)
(*     or a dict; an absent token or colour is None; an absent id is NoId; *)
(*   - a dict is a function whose DOMAIN is its key set;                   *)
(*   - list indices stay 0-based as in the code.                           *)
(***************************************************************************)
EXTENDS Integers, Sequences, FiniteSets, TLC

VARIABLES
    games,               \* GameManager.games: game id -> Game
    current_game_id,     \* websocket_endpoint's local, per handler (socket)
    pc,                  \* position of each connection handler task
    sent,                \* the messages the last send_game_update built
    last,                \* history: the last handled message
    steps,               \* history: number of messages handled
    budget,              \* the number of messages the handlers take in a run
    active_connections,  \* ConnectionManager.active_connections: socket -> user id
    user_connections,    \* ConnectionManager.user_connections: user id -> socket
    lock,                \* ConnectionManager._lock: the socket whose task holds it
    transport,           \* per socket: state of the underlying transport
    evicted,             \* history: sockets whose entry a failed send evicted
    task                 \* per handler: the send_game_update it is suspended in

engineVars == <<games, current_game_id, pc, sent, last, steps, budget>>
netVars == <<active_connections, user_connections, lock, transport, evicted, task>>
vars == <<games, current_game_id, pc, sent, last, steps, budget,
          active_connections, user_connections, lock, transport, evicted, task>>

-----------------------------------------------------------------------------
(* Bounds of the model *)

MaxSteps == 6
MaxTurns == 2
MaxNetSteps == 3
MaxWinSteps == 13
MaxDrySteps == 95
MaxRoomSteps == 5
MaxCastSteps == 3
MaxErrSteps == 4
MaxAdvanceSteps == 3
MaxAsyncSteps == 3
MaxOverSteps == 12
MaxShortSteps == 93

-----------------------------------------------------------------------------
(* Python values *)

None == <<>>
Some(x) == <<x>>
Val(o) == o[1]
NoId == "None"

EmptyDict == [k \in {} |-> None]
DictPut(d, k, v) == [x \in (DOMAIN d) \cup {k} |-> IF x = k THEN v ELSE d[x]]
DictDel(d, k) == [x \in (DOMAIN d) \ {k} |-> d[x]]

\* a faulty variant of DictValues: no value is read
DictValuesNone(d) == {}

DictValues(d) == {d[k] : k \in DOMAIN d}

InList(x, lst) == \E i \in 1..Len(lst) : lst[i] = x
ListSet(lst) == {lst[i] : i \in 1..Len(lst)}
Last(lst) == lst[Len(lst)]
Front(lst) == SubSeq(lst, 1, Len(lst) - 1)

\* a faulty variant of ListRemove: every occurrence of the item is removed
ListRemoveAll(s, x) == SelectSeq(s, LAMBDA y : y # x)

\* list.remove(x): removes the first occurrence
ListRemove(lst, x) ==
    LET i == CHOOSE j \in 1..Len(lst) :
                 lst[j] = x /\ \A k \in 1..(j - 1) : lst[k] # x
    IN SubSeq(lst, 1, i - 1) \o SubSeq(lst, i + 1, Len(lst))

\* `sub in s` for Python strings
StrContains(s, sub) ==
    \E i \in 0..(Len(s) - Len(sub)) : SubSeq(s, i + 1, i + Len(sub)) = sub

\* s[n:] for Python strings
StrFrom(s, n) == SubSeq(s, n + 1, Len(s))

-----------------------------------------------------------------------------
(* Card domain: utils.py *)

SPECIAL_CARDS == << <<"S">>, <<"R">>, <<"D", "2">> >>
WILD_CARDS == << <<"W", "-", "W", "i", "l", "d">>, <<"W", "-", "W", "4">> >>
REGULAR_CARDS == << <<"R">>, <<"B">>, <<"G">>, <<"Y">> >>

Digits == <<"0", "1", "2", "3", "4", "5", "6", "7", "8", "9">>
\* str(i) for 0 <= i <= 9
Str(i) == <<Digits[i + 1]>>
\* f"{color}-{x}"
FCard(color, x) == color \o <<"-">> \o x

\* create_deck before random.shuffle: the cards in the order the loops append them
ColorCards(color) ==
    <<FCard(color, Str(0))>>
    \o [k \in 1..18 |-> FCard(color, Str((k + 1) \div 2))]
    \o [k \in 1..6 |-> FCard(color, SPECIAL_CARDS[(k + 1) \div 2])]

UnshuffledDeck ==
    ColorCards(REGULAR_CARDS[1]) \o ColorCards(REGULAR_CARDS[2])
    \o ColorCards(REGULAR_CARDS[3]) \o ColorCards(REGULAR_CARDS[4])
    \o [k \in 1..8 |-> IF k % 2 = 1 THEN WILD_CARDS[1] ELSE WILD_CARDS[2]]

\* random.shuffle: the outcomes explored are the permutations
\* i -> (i * mult + off) mod 108 for the (mult, off) pairs below
ShuffleSeeds == {1, 2}
SeedMult == <<77, 31, 55, 55>>
SeedOff == <<69, 87, 48, 47>>

create_deck(seed) ==
    LET n == Len(UnshuffledDeck) IN
    [i \in 1..n |-> UnshuffledDeck[(((i - 1) * SeedMult[seed] + SeedOff[seed]) % n) + 1]]

\* a faulty variant of advance_turn_counter: the two directions exchanged
advance_turn_counter_backwards(current_player_index, player_count, is_clockwise) ==
    IF is_clockwise
    THEN (IF current_player_index = 0 THEN player_count - 1 ELSE current_player_index - 1)
    ELSE (IF current_player_index = player_count - 1 THEN 0 ELSE current_player_index + 1)

\* a faulty variant of advance_turn_counter: no wrap going backward from 0
advance_turn_counter_no_wrap(current_player_index, player_count, is_clockwise) ==
    IF is_clockwise
    THEN (IF current_player_index = player_count - 1 THEN 0 ELSE current_player_index + 1)
    ELSE (IF current_player_index = 0 THEN 0 ELSE current_player_index - 1)

advance_turn_counter(current_player_index, player_count, is_clockwise) ==
    IF is_clockwise
    THEN (IF current_player_index = player_count - 1 THEN 0 ELSE current_player_index + 1)
    ELSE (IF current_player_index = 0 THEN player_count - 1 ELSE current_player_index - 1)

\* (card[0], card[-1])
retrieve_card_info(card) == << <<card[1]>>, <<card[Len(card)]>> >>

-----------------------------------------------------------------------------
(* Room store and turn engine: game_manager.py *)

HandSize == 7
MaxPlayers == 10

\* Operations that can raise return [games, raised]: the store as the call left
\* it (assignments made before the raise are kept) and whether it raised.
Ok(gm) == [games |-> gm, raised |-> FALSE]
Raised(gm) == [games |-> gm, raised |-> TRUE]

Name(user_id) == user_id

create_game(gm, game_id, host_id, host_name) ==
    IF game_id \in DOMAIN gm
    THEN Raised(gm)
    ELSE Ok(DictPut(gm, game_id,
            [host_id |-> host_id,
             state |-> "waiting",
             players |-> <<host_id>>,
             player_names |-> DictPut(EmptyDict, host_id, host_name),
             player_states |-> DictPut(EmptyDict, host_id, "ready"),
             current_player_index |-> None,
             current_active_color |-> None,
             direction |-> 1,
             event |-> None,
             deck |-> <<>>,
             discard_pile |-> <<>>,
             player_cards |-> EmptyDict]))

\* a faulty variant of reset_game: the hands are kept
reset_game_keeping_hands(gm, game_id) ==
    IF game_id \notin DOMAIN gm
    THEN Raised(gm)
    ELSE Ok([gm EXCEPT ![game_id] =
            [@ EXCEPT !.state = "waiting",
                      !.current_player_index = None,
                      !.current_active_color = None,
                      !.direction = 1,
                      !.event = None,
                      !.deck = <<>>,
                      !.discard_pile = <<>>]])

reset_game(gm, game_id) ==
    IF game_id \notin DOMAIN gm
    THEN Raised(gm)
    ELSE Ok([gm EXCEPT ![game_id] =
            [@ EXCEPT !.state = "waiting",
                      !.current_player_index = None,
                      !.current_active_color = None,
                      !.direction = 1,
                      !.event = None,
                      !.deck = <<>>,
                      !.discard_pile = <<>>,
                      !.player_cards = EmptyDict]])

end_game(gm, game_id) == reset_game(gm, game_id)

set_player_back_to_lobby(gm, game_id, user_id) ==
    IF game_id \in DOMAIN gm
    THEN [gm EXCEPT ![game_id].player_states = DictPut(@, user_id, "ready")]
    ELSE gm

\* a faulty variant of advance_turn: the turn moves two seats
advance_turn_twice(game) ==
    LET once == advance_turn_counter(Val(game.current_player_index),
                                     Len(game.players), game.direction = 1)
    IN [game EXCEPT !.current_player_index =
           Some(advance_turn_counter(once, Len(game.players), game.direction = 1))]

\* The helpers below take the Game the code looks up by game_id.
advance_turn(game) ==
    [game EXCEPT !.current_player_index =
        Some(advance_turn_counter(Val(game.current_player_index),
                                  Len(game.players),
                                  game.direction = 1))]

\* a faulty variant of reverse_direction: the direction is kept
reverse_direction_kept(game) == game

reverse_direction(game) == [game EXCEPT !.direction = @ * (-1)]

\* a faulty variant of use_wild_card: the colour is not validated
use_wild_card_unvalidated(color, game) ==
    IF color = None
    THEN advance_turn(game)
    ELSE advance_turn([game EXCEPT !.current_active_color = retrieve_card_info(color)[1]])

use_wild_card(color, game) ==
    IF color = None
    THEN advance_turn(game)
    ELSE LET new_color == retrieve_card_info(color)[1] IN
         IF ~InList(new_color, REGULAR_CARDS)
         THEN advance_turn(game)
         ELSE advance_turn([game EXCEPT !.current_active_color = new_color])

\* a faulty variant of set_event: an event already set is kept
set_event_kept(game, event_type, player_id, affected_player_id) ==
    IF game.event # None THEN game
    ELSE [game EXCEPT !.event = Some([type |-> event_type,
                                      player_id |-> player_id,
                                      affected_player_id |-> affected_player_id])]

set_event(game, event_type, player_id, affected_player_id) ==
    [game EXCEPT !.event = Some([type |-> event_type,
                                 player_id |-> player_id,
                                 affected_player_id |-> affected_player_id])]

\* a faulty variant of join_game: the size of the room is not checked
join_game_unbounded(gm, game_id, user_id, user_name) ==
    IF game_id \notin DOMAIN gm THEN Raised(gm)
    ELSE LET game == gm[game_id] IN
    IF game.state # "waiting" THEN Raised(gm)
    ELSE IF ~InList(user_id, game.players)
    THEN Ok([gm EXCEPT ![game_id] =
            [@ EXCEPT !.players = Append(@, user_id),
                      !.player_names = DictPut(@, user_id, user_name),
                      !.player_states = DictPut(@, user_id, "ready"),
                      !.player_cards = DictPut(@, user_id, <<>>)]])
    ELSE Ok(gm)

join_game(gm, game_id, user_id, user_name) ==
    IF game_id \notin DOMAIN gm THEN Raised(gm)
    ELSE LET game == gm[game_id] IN
    IF game.state # "waiting" THEN Raised(gm)
    ELSE IF Len(game.players) >= MaxPlayers THEN Raised(gm)
    ELSE IF ~InList(user_id, game.players)
    THEN Ok([gm EXCEPT ![game_id] =
            [@ EXCEPT !.players = Append(@, user_id),
                      !.player_names = DictPut(@, user_id, user_name),
                      !.player_states = DictPut(@, user_id, "ready"),
                      !.player_cards = DictPut(@, user_id, <<>>)]])
    ELSE Ok(gm)

get_player_ids(gm, game_id) ==
    IF game_id \in DOMAIN gm THEN gm[game_id].players ELSE <<>>

\* a faulty variant of remove_player: a room without players stays in the store
remove_player_keeping(gm, game_id, user_id) ==
    IF game_id \notin DOMAIN gm THEN gm
    ELSE
    LET game == gm[game_id]
        g1 == IF user_id \in DOMAIN game.player_names
              THEN [game EXCEPT !.player_names = DictDel(@, user_id)]
              ELSE game
        g2 == IF InList(user_id, g1.players)
              THEN LET g == [g1 EXCEPT !.players = ListRemove(@, user_id),
                                       !.player_states = DictDel(@, user_id)]
                   IN IF user_id = g.host_id /\ Len(g.players) > 0
                      THEN [g EXCEPT !.host_id = g.players[1]]
                      ELSE g
              ELSE g1
    IN [gm EXCEPT ![game_id] = g2]

\* a faulty variant of remove_player: the host is not replaced
remove_player_host_kept(gm, game_id, user_id) ==
    IF game_id \notin DOMAIN gm THEN gm
    ELSE
    LET game == gm[game_id]
        g1 == IF user_id \in DOMAIN game.player_names
              THEN [game EXCEPT !.player_names = DictDel(@, user_id)]
              ELSE game
        g2 == IF InList(user_id, g1.players)
              THEN [g1 EXCEPT !.players = ListRemove(@, user_id),
                              !.player_states = DictDel(@, user_id)]
              ELSE g1
    IN IF Len(g2.players) = 0
       THEN DictDel(gm, game_id)
       ELSE [gm EXCEPT ![game_id] = g2]

remove_player(gm, game_id, user_id) ==
    IF game_id \notin DOMAIN gm THEN gm
    ELSE
    LET game == gm[game_id]
        g1 == IF user_id \in DOMAIN game.player_names
              THEN [game EXCEPT !.player_names = DictDel(@, user_id)]
              ELSE game
        g2 == IF InList(user_id, g1.players)
              THEN LET g == [g1 EXCEPT !.players = ListRemove(@, user_id),
                                       !.player_states = DictDel(@, user_id)]
                   IN IF user_id = g.host_id /\ Len(g.players) > 0
                      THEN [g EXCEPT !.host_id = g.players[1]]
                      ELSE g
              ELSE g1
    IN IF Len(g2.players) = 0
       THEN DictDel(gm, game_id)
       ELSE [gm EXCEPT ![game_id] = g2]

\* a faulty variant of PopMany: one card less is taken
PopManyLess(deck, n) ==
    LET m == IF Len(deck) < n - 1 THEN Len(deck) ELSE n - 1 IN
    [cards |-> [i \in 1..m |-> deck[Len(deck) - i + 1]],
     deck |-> SubSeq(deck, 1, Len(deck) - m)]

\* a faulty variant of PopMany: a deck shorter than n deals nothing
PopManyOrNone(deck, n) ==
    IF Len(deck) < n
    THEN [cards |-> <<>>, deck |-> deck]
    ELSE [cards |-> [i \in 1..n |-> deck[Len(deck) - i + 1]],
          deck |-> SubSeq(deck, 1, Len(deck) - n)]

\* deck.pop() repeated up to n times while the deck is not empty:
\* the cards in the order they are popped, and the deck that is left
PopMany(deck, n) ==
    LET m == IF Len(deck) < n THEN Len(deck) ELSE n IN
    [cards |-> [i \in 1..m |-> deck[Len(deck) - i + 1]],
     deck |-> SubSeq(deck, 1, Len(deck) - m)]

\* the dealing loop of start_game over player_ids[k..]
RECURSIVE DealHands(_, _, _)
DealHands(game, player_ids, k) ==
    IF k > Len(player_ids) THEN game
    ELSE LET p == PopMany(game.deck, HandSize) IN
         DealHands([game EXCEPT !.player_cards = DictPut(@, player_ids[k], p.cards),
                                !.deck = p.deck],
                   player_ids, k + 1)

\* The first discard decides whether random.choice is called.
FirstDiscardIsRegular(seed, player_count) ==
    LET dealt == PopMany(create_deck(seed), HandSize * player_count).deck IN
    Len(dealt) > 0 /\ InList(retrieve_card_info(Last(dealt))[1], REGULAR_CARDS)

\* seed, random_color and start_index are the outcomes of random.shuffle,
\* random.choice and random.randint
start_game(gm, game_id, seed, random_color, start_index) ==
    IF game_id \notin DOMAIN gm THEN Raised(gm)
    ELSE LET game == gm[game_id]
             player_ids == game.players IN
    IF Len(player_ids) < 2 THEN Raised(gm)
    ELSE IF "playing" \in DictValues(game.player_states) THEN Ok(gm)
    ELSE
    LET g1 == [game EXCEPT !.state = "playing",
                           !.player_states =
                               [u \in (DOMAIN @) \cup ListSet(player_ids) |->
                                   IF InList(u, player_ids) THEN "playing" ELSE @[u]],
                           !.deck = create_deck(seed)]
        g2 == DealHands(g1, player_ids, 1)
        g3 == IF Len(g2.deck) > 0
              THEN LET first_card == Last(g2.deck)
                       first_card_color == retrieve_card_info(first_card)[1]
                   IN [g2 EXCEPT !.deck = Front(@),
                                 !.discard_pile = Append(@, first_card),
                                 !.current_active_color =
                                     IF InList(first_card_color, REGULAR_CARDS)
                                     THEN first_card_color
                                     ELSE random_color]
              ELSE g2
    IN Ok([gm EXCEPT ![game_id] = [g3 EXCEPT !.current_player_index = Some(start_index)]])

\* a faulty variant of process_turn_draw: a draw from an empty deck passes the turn
process_turn_draw_passing(game, player_id, advance) ==
    LET players == game.players
        current_player_index == Val(game.current_player_index) IN
    IF current_player_index >= Len(players) THEN [game |-> game, raised |-> TRUE]
    ELSE LET current_player_id == players[current_player_index + 1] IN
    IF current_player_id # player_id THEN [game |-> game, raised |-> FALSE]
    ELSE IF current_player_id \notin DOMAIN game.player_cards
    THEN [game |-> game, raised |-> TRUE]
    ELSE IF Len(game.deck) = 0
    THEN [game |-> IF advance THEN advance_turn(game) ELSE game, raised |-> FALSE]
    ELSE
    LET selected_card == Last(game.deck)
        g1 == [game EXCEPT !.deck = Front(@),
                           !.player_cards[current_player_id] = Append(@, selected_card)]
        g2 == set_event(g1, "draw_card", current_player_id, NoId)
    IN [game |-> IF advance THEN advance_turn(g2) ELSE g2, raised |-> FALSE]

\* a faulty variant of process_turn_draw: the advance_turn flag is not read
process_turn_draw_advancing(game, player_id, advance) ==
    LET players == game.players
        current_player_index == Val(game.current_player_index) IN
    IF current_player_index >= Len(players) THEN [game |-> game, raised |-> TRUE]
    ELSE LET current_player_id == players[current_player_index + 1] IN
    IF current_player_id # player_id THEN [game |-> game, raised |-> FALSE]
    ELSE IF Len(game.deck) = 0 \/ current_player_id \notin DOMAIN game.player_cards
    THEN [game |-> game, raised |-> TRUE]
    ELSE
    LET selected_card == Last(game.deck)
        g1 == [game EXCEPT !.deck = Front(@),
                           !.player_cards[current_player_id] = Append(@, selected_card)]
        g2 == set_event(g1, "draw_card", current_player_id, NoId)
    IN [game |-> advance_turn(g2), raised |-> FALSE]

\* process_turn, action == "draw_card_from_middle"; game.event is already None
process_turn_draw(game, player_id, advance) ==
    LET players == game.players
        current_player_index == Val(game.current_player_index) IN
    IF current_player_index >= Len(players) THEN [game |-> game, raised |-> TRUE]
    ELSE LET current_player_id == players[current_player_index + 1] IN
    IF current_player_id # player_id THEN [game |-> game, raised |-> FALSE]
    ELSE IF Len(game.deck) = 0 \/ current_player_id \notin DOMAIN game.player_cards
    THEN [game |-> game, raised |-> TRUE]
    ELSE
    LET selected_card == Last(game.deck)
        g1 == [game EXCEPT !.deck = Front(@),
                           !.player_cards[current_player_id] = Append(@, selected_card)]
        g2 == set_event(g1, "draw_card", current_player_id, NoId)
    IN [game |-> IF advance THEN advance_turn(g2) ELSE g2, raised |-> FALSE]

\* the test of line 342
PlayAccepted(card, top_card, active_color) ==
    LET card_color == retrieve_card_info(card)[1]
        card_value == retrieve_card_info(card)[2]
        top_card_value == retrieve_card_info(top_card)[2]
        is_wild_card == InList(card, WILD_CARDS)
    IN is_wild_card \/ card_color = active_color \/ card_value = top_card_value

\* process_turn, action == "play_card", from line 334 on: the card is in the
\* current player's hand
process_turn_play(game, current_player_id, card) ==
    LET players == game.players
        card_color == retrieve_card_info(card)[1]
        card_value == retrieve_card_info(card)[2]
        is_special_card == InList(card_value, SPECIAL_CARDS)
                           \/ InList(StrFrom(card, 2), SPECIAL_CARDS)
        is_wild_card == InList(card, WILD_CARDS)
    IN
    IF ~PlayAccepted(card, Last(game.discard_pile), game.current_active_color)
    THEN game
    ELSE
    LET g1 == [game EXCEPT !.discard_pile = Append(@, card),
                           !.player_cards[current_player_id] = ListRemove(@, card)]
        g2 == set_event(g1, "play_card", current_player_id, NoId)
    IN
    IF Len(g2.player_cards[current_player_id]) = 0
    THEN set_event(g2, "win", current_player_id, NoId)
    ELSE
    LET g3 == IF ~is_wild_card THEN [g2 EXCEPT !.current_active_color = card_color] ELSE g2
    IN
    IF is_special_card
    THEN IF card_value = <<"S">>
         THEN LET g4 == advance_turn(g3)
                  g5 == set_event(g4, "skip", NoId,
                                  g4.players[Val(g4.current_player_index) + 1])
              IN advance_turn(g5)
         ELSE IF card_value = <<"R">>
         THEN advance_turn(set_event(reverse_direction(g3), "reverse", NoId, NoId))
         ELSE IF StrFrom(card, 2) = <<"D", "2">>
         THEN LET next_p_index == advance_turn_counter(Val(g3.current_player_index),
                                                       Len(players), g3.direction = 1)
                  victim_id == players[next_p_index + 1]
                  p == PopMany(g3.deck, 2)
                  g4 == [g3 EXCEPT !.player_cards[victim_id] = @ \o p.cards,
                                   !.deck = p.deck]
              IN advance_turn(set_event(g4, "draw2", current_player_id, victim_id))
         ELSE advance_turn(g3)
    ELSE IF is_wild_card
    THEN IF StrContains(card, <<"W", "i", "l", "d">>) /\ ~StrContains(card, <<"W", "4">>)
         THEN set_event(g3, "wild_color_pick", current_player_id, NoId)
         ELSE IF StrContains(card, <<"W", "4">>)
         THEN set_event(g3, "wild_color_pick_draw4", current_player_id, NoId)
         ELSE advance_turn(g3)
    ELSE advance_turn(g3)

\* process_turn, action == "change_color_with_wild_and_draw4"
process_turn_draw4(game, card) ==
    LET players == game.players IN
    IF Val(game.current_player_index) >= Len(players)
    THEN [game |-> game, raised |-> TRUE]
    ELSE
    LET player_id_initiator == players[Val(game.current_player_index) + 1]
        g1 == use_wild_card(card, game)
    IN
    IF Val(g1.current_player_index) >= Len(players)
       \/ players[Val(g1.current_player_index) + 1] \notin DOMAIN g1.player_cards
    THEN [game |-> g1, raised |-> TRUE]
    ELSE
    LET victim_id == players[Val(g1.current_player_index) + 1]
        p == PopMany(g1.deck, 4)
        g2 == [g1 EXCEPT !.player_cards[victim_id] = @ \o p.cards,
                         !.deck = p.deck]
    IN [game |-> set_event(g2, "draw4", player_id_initiator, victim_id), raised |-> FALSE]

\* The result for one Game: [game, raised]
process_turn_game(game0, player_id, action, card, advance) ==
    IF action = NoId THEN [game |-> game0, raised |-> FALSE]
    ELSE IF game0.current_player_index = None THEN [game |-> game0, raised |-> FALSE]
    ELSE
    LET game == [game0 EXCEPT !.event = None]
        players == game.players
        current_player_index == Val(game.current_player_index)
    IN
    IF action = "draw_card_from_middle"
    THEN process_turn_draw(game, player_id, advance)
    ELSE IF action = "play_card"
    THEN IF current_player_index >= Len(players)
         THEN [game |-> game, raised |-> TRUE]
         ELSE LET current_player_id == players[current_player_index + 1] IN
              IF current_player_id # player_id \/ card = None
              THEN [game |-> game, raised |-> FALSE]
              ELSE IF current_player_id \notin DOMAIN game.player_cards
              THEN [game |-> game, raised |-> TRUE]
              ELSE IF ~InList(card, game.player_cards[current_player_id])
              THEN [game |-> game, raised |-> FALSE]
              ELSE IF Len(game.discard_pile) = 0
              THEN [game |-> game, raised |-> TRUE]
              ELSE [game |-> process_turn_play(game, current_player_id, card),
                    raised |-> FALSE]
    ELSE IF action = "change_color_with_wild"
    THEN [game |-> use_wild_card(card, game), raised |-> FALSE]
    ELSE IF action = "change_color_with_wild_and_draw4"
    THEN process_turn_draw4(game, card)
    ELSE [game |-> game, raised |-> FALSE]

process_turn(gm, player_id, game_id, action, card, advance) ==
    IF game_id \notin DOMAIN gm THEN Raised(gm)
    ELSE LET r == process_turn_game(gm[game_id], player_id, action, card, advance)
         IN [games |-> [gm EXCEPT ![game_id] = r.game], raised |-> r.raised]

-----------------------------------------------------------------------------
(* View projector: send_game_update of main.py and websocket_utils.py *)

\* the GameState built for player_id; its hand and card_counts are the only
\* fields read from player_cards
GameState(game, current_game_id_, event, player_id) ==
    LET players == game.players
        player_cards == game.player_cards
        others == {p \in ListSet(players) : p # player_id}
    IN [event |-> event,
        game_id |-> current_game_id_,
        current_active_color |-> game.current_active_color,
        direction |-> game.direction,
        top_card |-> IF Len(game.discard_pile) > 0 THEN Last(game.discard_pile) ELSE None,
        current_player |-> players[Val(game.current_player_index) + 1],
        hand |-> IF player_id \in DOMAIN player_cards THEN player_cards[player_id] ELSE <<>>,
        card_counts |-> [other_player_id \in others |-> Len(player_cards[other_player_id])],
        game_event |-> game.event,
        player_states |-> game.player_states]

\* The messages handed to send_personal_message, in order: none when the
\* assert or players[current_player_index] raises, and only those before the
\* first player_cards[other_player_id] that raises KeyError.
send_game_update(game, current_game_id_, event) ==
    LET players == game.players IN
    IF game.current_player_index = None
       \/ Val(game.current_player_index) >= Len(players)
    THEN [messages |-> <<>>, raised |-> TRUE]
    ELSE
    LET builds(i) == \A q \in ListSet(players) \ {players[i]} : q \in DOMAIN game.player_cards
        n == IF \A i \in 1..Len(players) : builds(i)
             THEN Len(players)
             ELSE (CHOOSE k \in 1..Len(players) :
                       ~builds(k) /\ \A j \in 1..(k - 1) : builds(j)) - 1
    IN [messages |-> [i \in 1..n |->
                         [to |-> players[i],
                          message |-> GameState(game, current_game_id_, event, players[i])]],
        raised |-> n < Len(players)]

-----------------------------------------------------------------------------
(* Connection handlers: websocket_endpoint of main.py *)

Sockets == {"w1", "w2", "w3", "w4"}
\* client_id of the connection: w1 and w2 are two transports of P1
ClientId == [w \in Sockets |->
                IF w \in {"w1", "w2"} THEN "P1" ELSE IF w = "w3" THEN "P2" ELSE "P3"]
Users == {ClientId[w] : w \in Sockets}

Record(op, w, action, card, advance, raised) ==
    [op |-> op, socket |-> w, user |-> ClientId[w], game_id |-> current_game_id[w],
     action |-> action, card |-> card, advance |-> advance, raised |-> raised]

\* every handled message is counted and recorded
Handled(op, w, action, card, advance, raised) ==
    /\ steps < budget
    /\ steps' = steps + 1
    /\ UNCHANGED budget
    /\ last' = Record(op, w, action, card, advance, raised)

\* action == "create_game"; new_game_id is the id generate_game_id returns
\* once it is not in use
HandleCreateGame(w, new_game_id) ==
    /\ pc[w] = "open"
    /\ new_game_id \notin DOMAIN games
    /\ games' = create_game(games, new_game_id, ClientId[w], Name(ClientId[w])).games
    /\ current_game_id' = [current_game_id EXCEPT ![w] = Some(new_game_id)]
    /\ Handled("create_game", w, NoId, None, TRUE, FALSE)
    /\ sent' = <<>>
    /\ UNCHANGED <<pc, netVars>>

\* action == "join_game"
HandleJoinGame(w, target_id) ==
    /\ pc[w] = "open"
    /\ LET r == join_game(games, target_id, ClientId[w], Name(ClientId[w])) IN
       /\ games' = r.games
       /\ current_game_id' = IF r.raised THEN current_game_id
                             ELSE [current_game_id EXCEPT ![w] = Some(target_id)]
       /\ Handled("join_game", w, NoId, None, TRUE, r.raised)
    /\ sent' = <<>>
    /\ UNCHANGED <<pc, netVars>>

\* action == "leave_game"
HandleLeaveGame(w) ==
    /\ pc[w] = "open"
    /\ current_game_id[w] # None
    /\ games' = remove_player(games, Val(current_game_id[w]), ClientId[w])
    /\ current_game_id' = [current_game_id EXCEPT ![w] = None]
    /\ Handled("leave_game", w, NoId, None, TRUE, FALSE)
    /\ sent' = <<>>
    /\ UNCHANGED <<pc, netVars>>

\* action == "start_game"
HandleStartGame(w, seed, random_color, start_index) ==
    /\ pc[w] = "open"
    /\ current_game_id[w] # None
    /\ LET gid == Val(current_game_id[w])
           r == start_game(games, gid, seed, random_color, start_index)
           u == IF r.raised THEN [messages |-> <<>>, raised |-> TRUE]
                ELSE send_game_update(r.games[gid], gid, "game_started")
       IN /\ games' = r.games
          /\ sent' = u.messages
          /\ Handled("start_game", w, NoId, None, TRUE, r.raised \/ u.raised)
    /\ UNCHANGED <<current_game_id, pc, netVars>>

\* action == "end_game"
HandleEndGame(w) ==
    /\ pc[w] = "open"
    /\ current_game_id[w] # None
    /\ LET r == end_game(games, Val(current_game_id[w])) IN
       /\ games' = r.games
       /\ Handled("end_game", w, NoId, None, TRUE, r.raised)
    /\ sent' = <<>>
    /\ UNCHANGED <<current_game_id, pc, netVars>>

\* action == "back_to_lobby"
HandleBackToLobby(w) ==
    /\ pc[w] = "open"
    /\ current_game_id[w] # None
    /\ games' = set_player_back_to_lobby(games, Val(current_game_id[w]), ClientId[w])
    /\ Handled("back_to_lobby", w, NoId, None, TRUE, FALSE)
    /\ sent' = <<>>
    /\ UNCHANGED <<current_game_id, pc, netVars>>

\* action == "process_turn"
HandleProcessTurn(w, turn_action, card, advance) ==
    /\ pc[w] = "open"
    /\ current_game_id[w] # None
    /\ LET gid == Val(current_game_id[w])
           r == process_turn(games, ClientId[w], gid, turn_action, card, advance)
           u == IF r.raised THEN [messages |-> <<>>, raised |-> TRUE]
                ELSE send_game_update(r.games[gid], gid, "game_update")
       IN /\ games' = r.games
          /\ sent' = u.messages
          /\ Handled("process_turn", w, turn_action, card, advance, r.raised \/ u.raised)
    /\ UNCHANGED <<current_game_id, pc, netVars>>

-----------------------------------------------------------------------------
(* Connection registry: connection_manager.py *)

\* transport[w]: "up" while both ends are connected, "down" once the peer is
\* gone, "closed" once the server's close(code=1000) was delivered.
\* A send or close on a transport that is not "up" may raise.

\* the body of disconnect, under the lock: [active, users, user_id]
disconnect(active, users, websocket) ==
    IF websocket \in DOMAIN active
    THEN LET user_id == active[websocket] IN
         [active |-> DictDel(active, websocket),
          users |-> IF user_id \in DOMAIN users THEN DictDel(users, user_id) ELSE users,
          user_id |-> user_id]
    ELSE [active |-> active, users |-> users, user_id |-> NoId]

\* connect: accept, take the lock; when the user has no entry the body has no
\* suspension point and the registration completes
\* (websocket_endpoint passes client_display_name as a further argument,
\* which connect(websocket, user_id) does not declare; the registry is keyed
\* by client_id alone and the name is left out)
ConnectBegin(w) ==
    /\ pc[w] = "new"
    /\ lock = None
    /\ transport' = [transport EXCEPT ![w] = "up"]
    /\ IF ClientId[w] \in DOMAIN user_connections
       THEN /\ lock' = Some(w)
            /\ pc' = [pc EXCEPT ![w] = "connecting"]
            /\ UNCHANGED <<active_connections, user_connections>>
       ELSE /\ active_connections' = DictPut(active_connections, w, ClientId[w])
            /\ user_connections' = DictPut(user_connections, ClientId[w], w)
            /\ pc' = [pc EXCEPT ![w] = "open"]
            /\ UNCHANGED lock
    /\ UNCHANGED <<games, current_game_id, sent, last, steps, budget, evicted, task>>

\* connect resumed after `await old_ws.close(...)`: close_raised is whether the
\* close raised, which skips the del of line 29
ConnectFinish(w, close_raised) ==
    /\ pc[w] = "connecting"
    /\ lock = Some(w)
    /\ LET user_id == ClientId[w]
           old_ws == user_connections[user_id]
       IN /\ close_raised => transport[old_ws] # "up"
          /\ transport' = IF close_raised THEN transport
                          ELSE [transport EXCEPT ![old_ws] = "closed"]
          /\ active_connections' =
                 DictPut(IF ~close_raised /\ old_ws \in DOMAIN active_connections
                         THEN DictDel(active_connections, old_ws)
                         ELSE active_connections,
                         w, user_id)
          /\ user_connections' = DictPut(user_connections, user_id, w)
    /\ lock' = None
    /\ pc' = [pc EXCEPT ![w] = "open"]
    /\ UNCHANGED <<games, current_game_id, sent, last, steps, budget, evicted, task>>

\* the peer of an open connection goes away
ClientClose(w) ==
    /\ pc[w] = "open"
    /\ transport[w] = "up"
    /\ transport' = [transport EXCEPT ![w] = "down"]
    /\ UNCHANGED <<engineVars, active_connections, user_connections, lock, evicted, task>>

\* send_personal_message(message, user_id) whose send_text raises, called by
\* broadcast_to_room of the handler `sender` for a player of its room
SendFails(sender, user_id) ==
    /\ pc[sender] = "open"
    /\ current_game_id[sender] # None
    /\ InList(user_id, get_player_ids(games, Val(current_game_id[sender])))
    /\ user_id \in DOMAIN user_connections
    /\ transport[user_connections[user_id]] # "up"
    /\ lock = None
    /\ LET websocket == user_connections[user_id]
           r == disconnect(active_connections, user_connections, websocket)
       IN /\ active_connections' = r.active
          /\ user_connections' = r.users
          /\ evicted' = evicted \cup {websocket}
    /\ UNCHANGED <<engineVars, lock, transport, task>>

\* websocket_endpoint, `except WebSocketDisconnect`
DisconnectCleanup(w) ==
    /\ lock = None
    /\ LET r == disconnect(active_connections, user_connections, w)
           user_left_id == r.user_id
       IN /\ active_connections' = r.active
          /\ user_connections' = r.users
          /\ games' = IF current_game_id[w] # None /\ user_left_id # NoId
                      THEN remove_player(games, Val(current_game_id[w]), user_left_id)
                      ELSE games
    /\ pc' = [pc EXCEPT ![w] = "closed"]
    /\ last' = Record("disconnect", w, NoId, None, TRUE, FALSE)
    /\ sent' = <<>>
    /\ UNCHANGED <<current_game_id, steps, budget, lock, evicted, task>>

\* receive_text raises WebSocketDisconnect on a transport that is gone
ObserveDisconnect(w) ==
    /\ pc[w] = "open"
    /\ transport[w] # "up"
    /\ DisconnectCleanup(w)
    /\ UNCHANGED transport

\* the handler task ends with an exception other than WebSocketDisconnect
\* (receive_text on a transport that is gone): the only except clause outside
\* the loop names WebSocketDisconnect and there is no finally, so nothing runs
HandlerError(w) ==
    /\ pc[w] = "open"
    /\ transport[w] # "up"
    /\ pc' = [pc EXCEPT ![w] = "crashed"]
    /\ UNCHANGED <<games, current_game_id, sent, last, steps, budget, netVars>>

-----------------------------------------------------------------------------
(* Specifications *)

NoRecord == [op |-> "none", socket |-> "none", user |-> NoId, game_id |-> None,
             action |-> NoId, card |-> None, advance |-> TRUE, raised |-> FALSE]

\* the sockets of P1, P2, P3 in the specifications of the rooms
TurnSockets == {"w1", "w3", "w4"}
SocketOf(user_id) == CHOOSE w \in TurnSockets : ClientId[w] = user_id

Room(w) == games[Val(current_game_id[w])]
InRoom(w) == current_game_id[w] # None /\ Val(current_game_id[w]) \in DOMAIN games
HandCards(w) ==
    IF InRoom(w) /\ ClientId[w] \in DOMAIN Room(w).player_cards
    THEN ListSet(Room(w).player_cards[ClientId[w]])
    ELSE {}
PlayerCount(w) == IF InRoom(w) THEN Len(Room(w).players) ELSE 0
IndexValid(game) ==
    /\ game.current_player_index # None
    /\ Val(game.current_player_index) < Len(game.players)
IsCurrentPlayer(w) ==
    /\ InRoom(w)
    /\ IndexValid(Room(w))
    /\ Room(w).players[Val(Room(w).current_player_index) + 1] = ClientId[w]

\* inputs of start_game: the outcomes of random.shuffle, random.randint and,
\* when the first discard is a wild card, random.choice
StartInputs(w) ==
    \E seed \in ShuffleSeeds :
    \E start_index \in 0..(IF PlayerCount(w) > 0 THEN PlayerCount(w) - 1 ELSE 0) :
    \E i \in (IF FirstDiscardIsRegular(seed, PlayerCount(w))
              THEN {1} ELSE 1..Len(REGULAR_CARDS)) :
        HandleStartGame(w, seed, REGULAR_CARDS[i], start_index)

\* inputs of process_turn: a colour, no colour, a token that is no colour
ColorInputs == {None, <<"R">>, <<"Y">>, <<"W">>}

\* the turn messages of a handler
DrawCard(w) ==
    \E advance \in BOOLEAN : HandleProcessTurn(w, "draw_card_from_middle", None, advance)
PlayCard(w) ==
    \E card \in HandCards(w) : HandleProcessTurn(w, "play_card", card, TRUE)
ChangeColor(w) ==
    \E color \in ColorInputs : HandleProcessTurn(w, "change_color_with_wild", color, TRUE)
ChangeColorDraw4(w) ==
    \E color \in ColorInputs :
        HandleProcessTurn(w, "change_color_with_wild_and_draw4", color, TRUE)
NoAction(w) == HandleProcessTurn(w, NoId, None, TRUE)

\* the turn messages of a client that acts when it is its turn
CurrentPlayerDraws(w) ==
    IsCurrentPlayer(w) /\ HandleProcessTurn(w, "draw_card_from_middle", None, TRUE)
CurrentPlayerPlays(w) == IsCurrentPlayer(w) /\ PlayCard(w)

RegistryOfTurnSockets ==
    /\ pc = [w \in Sockets |-> IF w \in TurnSockets THEN "open" ELSE "new"]
    /\ active_connections = [w \in TurnSockets |-> ClientId[w]]
    /\ user_connections = [u \in Users |-> SocketOf(u)]
    /\ lock = None
    /\ transport = [w \in Sockets |-> IF w \in TurnSockets THEN "up" ELSE "new"]
    /\ evicted = {}
    /\ task = [w \in Sockets |-> None]

\* Spec: the life cycle of one room. P1, P2 and P3 are connected, one
\* transport each; P1 creates the room; turn messages come from the player
\* whose turn it is.
Init ==
    /\ games = EmptyDict
    /\ current_game_id = [w \in Sockets |-> None]
    /\ sent = <<>>
    /\ last = NoRecord
    /\ steps = 0
    /\ budget = MaxSteps
    /\ RegistryOfTurnSockets

Next ==
    \/ HandleCreateGame("w1", "A")
    \/ \E w \in TurnSockets : HandleJoinGame(w, "A")
    \/ \E w \in TurnSockets : HandleLeaveGame(w)
    \/ \E w \in TurnSockets : StartInputs(w)
    \/ \E w \in TurnSockets : HandleEndGame(w)
    \/ \E w \in TurnSockets : HandleBackToLobby(w)
    \/ \E w \in TurnSockets : CurrentPlayerDraws(w)
    \/ \E w \in TurnSockets : CurrentPlayerPlays(w)

Spec == Init /\ [][Next]_vars

\* SpecTurn: the turn engine on a room that P1 created, that P2 (and P3)
\* joined and that was just started; any member sends any turn message, and
\* members leave.
StartedGames(player_count, seed, random_color, start_index) ==
    LET g1 == create_game(EmptyDict, "A", "P1", Name("P1")).games
        g2 == join_game(g1, "A", "P2", Name("P2")).games
        g3 == IF player_count > 2 THEN join_game(g2, "A", "P3", Name("P3")).games ELSE g2
    IN start_game(g3, "A", seed, random_color, start_index).games

InitTurn ==
    /\ \E player_count \in {2, 3} :
       \E seed \in ShuffleSeeds :
       \E start_index \in 0..(player_count - 1) :
       \E i \in (IF FirstDiscardIsRegular(seed, player_count)
                 THEN {1} ELSE 1..Len(REGULAR_CARDS)) :
          /\ games = StartedGames(player_count, seed, REGULAR_CARDS[i], start_index)
          /\ current_game_id =
                 [w \in Sockets |->
                     IF w \in TurnSockets /\ InList(ClientId[w], games["A"].players)
                     THEN Some("A") ELSE None]
          /\ sent = send_game_update(games["A"], "A", "game_started").messages
    /\ last = [NoRecord EXCEPT !.op = "start_game", !.socket = "w1", !.user = "P1",
                               !.game_id = Some("A")]
    /\ steps = 0
    /\ budget = MaxTurns
    /\ RegistryOfTurnSockets

NextTurn ==
    \/ \E w \in TurnSockets : DrawCard(w)
    \/ \E w \in TurnSockets : PlayCard(w)
    \/ \E w \in TurnSockets : ChangeColor(w)
    \/ \E w \in TurnSockets : ChangeColorDraw4(w)
    \/ \E w \in TurnSockets : NoAction(w)
    \/ \E w \in TurnSockets : HandleLeaveGame(w)

SpecTurn == InitTurn /\ [][NextTurn]_vars

\* SpecNet: connections come and go. P1 connects over w1 and again over w2,
\* P2 over w3; the handlers create, join and leave rooms A and B.
NetSockets == {"w1", "w2", "w3"}
NetGameIds == {"A", "B"}

InitNet ==
    /\ games = EmptyDict
    /\ current_game_id = [w \in Sockets |-> None]
    /\ pc = [w \in Sockets |-> "new"]
    /\ sent = <<>>
    /\ last = NoRecord
    /\ steps = 0
    /\ budget = MaxNetSteps
    /\ active_connections = EmptyDict
    /\ user_connections = EmptyDict
    /\ lock = None
    /\ transport = [w \in Sockets |-> "new"]
    /\ evicted = {}
    /\ task = [w \in Sockets |-> None]

NextNet ==
    \/ \E w \in NetSockets : ConnectBegin(w)
    \/ \E w \in NetSockets : \E close_raised \in BOOLEAN : ConnectFinish(w, close_raised)
    \/ \E w \in NetSockets : ClientClose(w)
    \/ \E w \in NetSockets : \E user_id \in Users : SendFails(w, user_id)
    \/ \E w \in NetSockets : ObserveDisconnect(w)
    \/ \E w \in NetSockets : HandlerError(w)
    \/ \E w \in NetSockets : \E game_id \in NetGameIds : HandleCreateGame(w, game_id)
    \/ \E w \in NetSockets : \E game_id \in NetGameIds : HandleJoinGame(w, game_id)
    \/ \E w \in NetSockets : HandleLeaveGame(w)

SpecNet == InitNet /\ [][NextNet]_vars

-----------------------------------------------------------------------------
(* Properties *)

CountIn(lst, x) == Cardinality({i \in 1..Len(lst) : lst[i] = x})

RECURSIVE HandsConcat(_)
HandsConcat(player_cards) ==
    IF DOMAIN player_cards = {} THEN <<>>
    ELSE LET k == CHOOSE k \in DOMAIN player_cards : TRUE
         IN player_cards[k] \o HandsConcat(DictDel(player_cards, k))

\* all cards of a room: the deck, the discard pile and every hand of the hands map
AllCards(game) == game.deck \o game.discard_pile \o HandsConcat(game.player_cards)

IsFullDeck(cards) ==
    /\ Len(cards) = Len(UnshuffledDeck)
    /\ \A c \in ListSet(UnshuffledDeck) : CountIn(cards, c) = CountIn(UnshuffledDeck, c)

\* C1: in every room whose state is Playing the deck, the discard pile and
\* all hands together hold exactly the 108 cards of the full deck.
C1_CardsConserved ==
    \A g \in DOMAIN games :
        games[g].state = "playing" => IsFullDeck(AllCards(games[g]))

\* C2: in every room whose state is Playing current_player_index is not None
\* and is an index of players.
C2_IndexValid ==
    \A g \in DOMAIN games :
        games[g].state = "playing" => IndexValid(games[g])

\* what a turn message may change, apart from pending_event
TurnState(game) ==
    <<game.player_cards, game.deck, game.discard_pile, game.direction,
      game.current_active_color, game.current_player_index>>

\* this step handled a process_turn message of the member `user` of room A
TurnStep(user) ==
    /\ steps' = steps + 1
    /\ last'.op = "process_turn"
    /\ last'.user = user
    /\ last'.game_id = Some("A")
    /\ "A" \in DOMAIN games
    /\ games["A"].state = "playing"

OutOfTurn(game, user) ==
    /\ IndexValid(game)
    /\ InList(user, game.players)
    /\ game.players[Val(game.current_player_index) + 1] # user

TurnActions == {"draw_card_from_middle", "play_card", "change_color_with_wild",
                "change_color_with_wild_and_draw4"}

\* C3: a turn message of any of the four kinds from a participant who is not
\* players[current_player_index] leaves hands, deck, discard pile, direction,
\* active colour and turn index unchanged.
C3_OutOfTurnIgnored ==
    [][\A user \in Users :
          (TurnStep(user) /\ last'.action \in TurnActions /\ OutOfTurn(games["A"], user))
          => TurnState(games'["A"]) = TurnState(games["A"])]_vars

\* the room awaits the colour choice of `user`: the last processed call was
\* the user's play of a wild card that was not the last card
AwaitingColor(game, user) ==
    /\ game.event # None
    /\ Val(game.event).type \in {"wild_color_pick", "wild_color_pick_draw4"}
    /\ Val(game.event).player_id = user

\* C4: while the room awaits the colour choice of the player who played a
\* wild card, a draw or a play from that player changes nothing.
C4_OnlyColorChoiceWhileAwaiting ==
    [][\A user \in Users :
          (/\ TurnStep(user)
           /\ AwaitingColor(games["A"], user)
           /\ last'.action \in {"draw_card_from_middle", "play_card"})
          => /\ games'["A"].player_cards = games["A"].player_cards
             /\ games'["A"].deck = games["A"].deck
             /\ games'["A"].discard_pile = games["A"].discard_pile
             /\ games'["A"].current_player_index = games["A"].current_player_index]_vars

\* C5: a colour-choice action processed when the card on top of the discard
\* pile is not a wild card (so no colour choice is awaited) does not advance
\* the turn, change the active colour or deal cards.
C5_ColorChoiceOnlyWhenAwaited ==
    [][\A user \in Users :
          (/\ TurnStep(user)
           /\ last'.action \in {"change_color_with_wild", "change_color_with_wild_and_draw4"}
           /\ Len(games["A"].discard_pile) > 0
           /\ ~InList(Last(games["A"].discard_pile), WILD_CARDS))
          => /\ games'["A"].current_player_index = games["A"].current_player_index
             /\ games'["A"].current_active_color = games["A"].current_active_color
             /\ games'["A"].player_cards = games["A"].player_cards]_vars

\* the data model's card: colour and one of the 15 ranks 0-9, S, R, D2, Wild, W4
CardColor(card) == <<card[1]>>
CardRank(card) == StrFrom(card, 2)
ReferenceLegal(card, top_card, active_color) ==
    \/ InList(card, WILD_CARDS)
    \/ CardColor(card) = active_color
    \/ CardRank(card) = CardRank(top_card)

\* C6: a play by the current player of a card of their hand puts the card on
\* the discard pile exactly when the reference rule accepts it, and changes
\* nothing otherwise.
C6_PlayAcceptedIffLegal ==
    [][\A user \in Users :
          (/\ TurnStep(user)
           /\ last'.action = "play_card"
           /\ IndexValid(games["A"])
           /\ ~OutOfTurn(games["A"], user)
           /\ InList(last'.card, games["A"].player_cards[user]))
          => LET game == games["A"]
                 legal == ReferenceLegal(last'.card, Last(game.discard_pile),
                                         game.current_active_color)
             IN /\ legal <=> games'["A"].discard_pile = Append(game.discard_pile, last'.card)
                /\ ~legal => TurnState(games'["A"]) = TurnState(game)]_vars

\* the transports the registry holds for a participant
EntriesOf(user_id) ==
    {w \in DOMAIN active_connections : active_connections[w] = user_id}

\* C7: the registry holds at most one transport entry per participant id,
\* whether or not closing a replaced transport succeeds.
C7_OneEntryPerParticipant ==
    \A user_id \in Users : Cardinality(EntriesOf(user_id)) <= 1

\* the rooms that have `user_id` as a player
RoomsOf(gm, user_id) == {g \in DOMAIN gm : InList(user_id, gm[g].players)}

\* no handler of another transport of the participant of w has run
OnlyTransport(w) ==
    \A v \in Sockets : (v # w /\ ClientId[v] = ClientId[w]) => pc[v] = "new"

\* C8: when the handler of a registered transport observes the disconnect,
\* the participant is a player of no room afterwards, also not of a room
\* created or joined earlier over the same connection.
C8_DisconnectLeavesEveryRoom ==
    [][\A w \in Sockets :
          (/\ pc[w] = "open" /\ pc'[w] = "closed"
           /\ w \in DOMAIN active_connections
           /\ OnlyTransport(w))
          => RoomsOf(games', ClientId[w]) = {}]_vars

\* the handler of w has ended and no other handler of its participant runs
Terminated(w) ==
    /\ pc[w] \in {"closed", "crashed"}
    /\ \A v \in Sockets : ClientId[v] = ClientId[w] => pc[v] \in {"new", "closed", "crashed"}

\* C9: once the handler of a transport whose registry entry was evicted by a
\* failed send, or whose task ended with an error, has ended, the participant
\* is no longer a player of the room the handler was in.
C9_FailureLeavesRoom ==
    \A w \in Sockets :
        (/\ Terminated(w)
         /\ w \in evicted \/ pc[w] = "crashed"
         /\ InRoom(w))
        => ~InList(ClientId[w], Room(w).players)

\* the room with every hand but that of player_id replaced by as many copies
\* of one card
Masked(game, player_id) ==
    [game EXCEPT !.player_cards =
        [q \in DOMAIN @ |->
            IF q = player_id THEN @[q] ELSE [i \in 1..Len(@[q]) |-> UnshuffledDeck[1]]]]

\* the message built for the i-th player shows the own hand, the hand sizes
\* of exactly the other players, and nothing else of their hands
HidesHands(game, game_id, messages, i) ==
    LET player_id == messages[i].to
        m == messages[i].message
    IN /\ player_id = game.players[i]
       /\ m.hand = game.player_cards[player_id]
       /\ DOMAIN m.card_counts = ListSet(game.players) \ {player_id}
       /\ \A q \in DOMAIN m.card_counts : m.card_counts[q] = Len(game.player_cards[q])
       /\ m = GameState(Masked(game, player_id), game_id, "game_update", player_id)

\* this step handled a process_turn message of w for which process_turn
\* returned the room, so that send_game_update was called with it
ProjectorCalled(w) ==
    /\ steps' = steps + 1
    /\ last'.op = "process_turn"
    /\ last'.socket = w
    /\ InRoom(w)
    /\ Room(w).state = "playing"
    /\ ~process_turn(games, ClientId[w], Val(current_game_id[w]),
                     last'.action, last'.card, last'.advance).raised

\* C10: whenever the projector is called for a room in state Playing, exactly
\* one game-state message is built for every player p of the room, holding
\* p's hand, the hand sizes of exactly the other players, and the same
\* content whatever cards they hold.
C10_OneProjectionPerParticipant ==
    [][\A w \in Sockets :
          ProjectorCalled(w) =>
              LET game_id == Val(current_game_id[w])
                  game == games'[game_id]
              IN /\ Len(sent') = Len(game.players)
                 /\ \A i \in 1..Len(sent') : HidesHands(game, game_id, sent', i)]_vars

\* wherever send_game_update builds messages, each of them hides the hands
\* of the other players
BuiltMessagesHideHands ==
    \A g \in DOMAIN games :
        games[g].state = "playing" =>
            LET u == send_game_update(games[g], g, "game_update") IN
            \A i \in 1..Len(u.messages) : HidesHands(games[g], g, u.messages, i)

\* this step handled a play_card of the current player `user` of room A that
\* put the card of their hand on the discard pile
AcceptedPlay(user) ==
    /\ TurnStep(user)
    /\ last'.action = "play_card"
    /\ IndexValid(games["A"])
    /\ games["A"].players[Val(games["A"].current_player_index) + 1] = user
    /\ user \in DOMAIN games["A"].player_cards
    /\ InList(last'.card, games["A"].player_cards[user])
    /\ games'["A"].discard_pile = Append(games["A"].discard_pile, last'.card)

\* the played card is not the last card of the hand
NotLastCard(user) == Len(games["A"].player_cards[user]) > 1

\* the index k seats ahead of the current player in the current direction
SeatAhead(game, k) ==
    LET n == Len(game.players) IN
    (Val(game.current_player_index) + k * game.direction + 2 * n) % n

PlayerAhead(game, k) == game.players[SeatAhead(game, k) + 1]

EventIs(game, type) == game.event # None /\ Val(game.event).type = type

\* the last handled message was a play_card of a card of rank `rank` in room A
PlayedRank(rank) ==
    /\ last.op = "process_turn"
    /\ last.action = "play_card"
    /\ last.card # None
    /\ CardRank(last.card) = rank
    /\ "A" \in DOMAIN games

\* C11: an accepted Skip that is not the last card, in a room of at least 3
\* players, moves the turn two seats ahead in the current direction and the
\* skip event names the player one seat ahead.
C11_SkipLandsTwoAhead ==
    [][\A user \in Users :
          (/\ AcceptedPlay(user)
           /\ CardRank(last'.card) = <<"S">>
           /\ NotLastCard(user)
           /\ Len(games["A"].players) >= 3)
          => /\ games'["A"].current_player_index = Some(SeatAhead(games["A"], 2))
             /\ EventIs(games'["A"], "skip")
             /\ Val(games'["A"].event).affected_player_id = PlayerAhead(games["A"], 1)]_vars

\* a Skip was played by P1 at index 0 of [P1, P2, P3] clockwise: the turn is
\* at index 2 and the event names P2
C11_Witness ==
    /\ PlayedRank(<<"S">>)
    /\ last.user = "P1"
    /\ games["A"].players = <<"P1", "P2", "P3">>
    /\ games["A"].direction = 1
    /\ games["A"].current_player_index = Some(2)
    /\ EventIs(games["A"], "skip")
    /\ Val(games["A"].event).affected_player_id = "P2"

\* C12: in a room of exactly 2 players an accepted Reverse, like an
\* accepted Skip, leaves the turn with the player who played the card;
\* Reverse also flips the direction.
C12_ReverseLikeSkipForTwo ==
    [][\A user \in Users :
          (/\ AcceptedPlay(user)
           /\ CardRank(last'.card) \in {<<"S">>, <<"R">>}
           /\ NotLastCard(user)
           /\ Len(games["A"].players) = 2)
          => /\ games'["A"].current_player_index = games["A"].current_player_index
             /\ CardRank(last'.card) = <<"R">>
                    => games'["A"].direction = -games["A"].direction]_vars

\* C13: an accepted DrawTwo that is not the last card deals 2 cards from the
\* deck to the player one step ahead, names the actor and that player in the
\* draw2 event, and skips the victim: the turn goes to the player after the
\* victim.
C13_DrawTwoSkipsVictim ==
    [][\A user \in Users :
          (/\ AcceptedPlay(user)
           /\ CardRank(last'.card) = <<"D", "2">>
           /\ NotLastCard(user)
           /\ Len(games["A"].players) >= 2
           /\ Len(games["A"].deck) >= 2)
          => LET game == games["A"]
                 victim == PlayerAhead(game, 1)
                 n == Len(game.deck)
             IN /\ games'["A"].player_cards[victim] =
                       game.player_cards[victim] \o <<game.deck[n], game.deck[n - 1]>>
                /\ games'["A"].deck = SubSeq(game.deck, 1, n - 2)
                /\ games'["A"].event =
                       Some([type |-> "draw2", player_id |-> user,
                             affected_player_id |-> victim])
                /\ games'["A"].current_player_index = Some(SeatAhead(game, 2))]_vars

\* the current player P of room A has played the wild card `wild` and the
\* room shows the colour-pick event `type` of P
AwaitsChoice(game, type, wild) ==
    /\ IndexValid(game)
    /\ EventIs(game, type)
    /\ Val(game.event).player_id = game.players[Val(game.current_player_index) + 1]
    /\ Len(game.discard_pile) > 0
    /\ Last(game.discard_pile) = wild

\* this step handled the colour-choice message `action` of room A
ChoiceStep(action) ==
    /\ \E user \in Users : TurnStep(user)
    /\ last'.action = action

-----------------------------------------------------------------------------
(* A game played to its end *)

\* SpecWin: a started room of P1 and P2 in which P1 plays a card whenever it
\* is P1's turn and chooses a colour after a wild card, and P2 only draws.
\* With the shuffles of WinSeeds P1 can play all seven cards.
WinSeeds == {3, 4}

PlaysInTurn(w) ==
    /\ IsCurrentPlayer(w)
    /\ ~AwaitingColor(Room(w), ClientId[w])
    /\ PlayCard(w)

AnswersColor(w) ==
    /\ IsCurrentPlayer(w)
    /\ AwaitingColor(Room(w), ClientId[w])
    /\ \E i \in 1..Len(REGULAR_CARDS) :
          HandleProcessTurn(w,
                            IF EventIs(Room(w), "wild_color_pick")
                            THEN "change_color_with_wild"
                            ELSE "change_color_with_wild_and_draw4",
                            REGULAR_CARDS[i], TRUE)

InitWin ==
    /\ \E seed \in WinSeeds :
          games = StartedGames(2, seed, REGULAR_CARDS[1], 0)
    /\ current_game_id =
           [w \in Sockets |-> IF w \in {"w1", "w3"} THEN Some("A") ELSE None]
    /\ sent = send_game_update(games["A"], "A", "game_started").messages
    /\ last = [NoRecord EXCEPT !.op = "start_game", !.socket = "w1", !.user = "P1",
                               !.game_id = Some("A")]
    /\ steps = 0
    /\ budget = MaxWinSteps
    /\ RegistryOfTurnSockets

NextWin ==
    \/ PlaysInTurn("w1")
    \/ AnswersColor("w1")
    \/ CurrentPlayerDraws("w3")

SpecWin == InitWin /\ [][NextWin]_vars

\* C15: an accepted play of the last card of the hand sets the win event
\* naming the actor and neither advances the turn, flips the direction nor
\* deals cards, whatever the rank of the card.
C15_WinStopsTheTurn ==
    [][\A user \in Users :
          (AcceptedPlay(user) /\ ~NotLastCard(user))
          => /\ games'["A"].event =
                    Some([type |-> "win", player_id |-> user, affected_player_id |-> NoId])
             /\ games'["A"].current_player_index = games["A"].current_player_index
             /\ games'["A"].direction = games["A"].direction
             /\ games'["A"].deck = games["A"].deck
             /\ games'["A"].player_cards =
                    [games["A"].player_cards EXCEPT ![user] = <<>>]]_vars

\* P1 has played a DrawTwo as the last card: P1's hand is empty, the event is
\* win and P2 holds the seven cards dealt plus one per draw
C15_Witness ==
    /\ PlayedRank(<<"D", "2">>)
    /\ last.user = "P1"
    /\ games["A"].player_cards["P1"] = <<>>
    /\ EventIs(games["A"], "win")
    /\ games["A"].current_player_index = Some(0)
    /\ Len(games["A"].player_cards["P2"]) + Len(games["A"].deck)
       + Len(games["A"].discard_pile) = Len(UnshuffledDeck)

\* the list s without its k-th element
WithoutAt(s, k) == SubSeq(s, 1, k - 1) \o SubSeq(s, k + 1, Len(s))

IsPrefix(s, t) == Len(s) <= Len(t) /\ SubSeq(t, 1, Len(s)) = s

\* the hand of the actor after the play: one occurrence of the card is gone,
\* the other cards keep their order, and whatever follows was dealt to the hand
PlayedFrom(hand, card, after) ==
    \E k \in 1..Len(hand) :
        /\ hand[k] = card
        /\ IsPrefix(WithoutAt(hand, k), after)
        /\ CountIn(SubSeq(after, 1, Len(hand) - 1), card) = CountIn(hand, card) - 1

\* the victim of an accepted DrawTwo of the actor: the next player
IsDrawTwoVictim(user, other) ==
    /\ CardRank(last'.card) = <<"D", "2">>
    /\ NotLastCard(user)
    /\ other = PlayerAhead(games["A"], 1)

\* C16: an accepted play of card c removes one occurrence of c from the
\* actor's hand, appends c to the discard pile with the earlier discards kept,
\* and changes no other hand, except for the two cards dealt to the victim of
\* a DrawTwo.
C16_PlayMovesOneCard ==
    [][\A user \in Users :
          AcceptedPlay(user)
          => LET before == games["A"].player_cards
                 after == games'["A"].player_cards
             IN /\ DOMAIN after = DOMAIN before
                /\ PlayedFrom(before[user], last'.card, after[user])
                /\ Len(after[user]) = Len(before[user]) - 1
                                       + (IF IsDrawTwoVictim(user, user) THEN 2 ELSE 0)
                /\ games'["A"].discard_pile =
                       Append(games["A"].discard_pile, last'.card)
                /\ \A other \in DOMAIN before \ {user} :
                      IF IsDrawTwoVictim(user, other)
                      THEN /\ IsPrefix(before[other], after[other])
                           /\ Len(after[other]) = Len(before[other]) + 2
                      ELSE after[other] = before[other]]_vars

\* the actor has played one of two copies of a card: the play_card event names
\* the actor, the card is on top of the discard pile and the other copy is
\* still in the actor's hand
C16_Witness ==
    /\ last.op = "process_turn"
    /\ last.action = "play_card"
    /\ last.card # None
    /\ last.raised = FALSE
    /\ "A" \in DOMAIN games
    /\ last.user \in DOMAIN games["A"].player_cards
    /\ games["A"].discard_pile # <<>>
    /\ games["A"].discard_pile[Len(games["A"].discard_pile)] = last.card
    /\ InList(last.card, games["A"].player_cards[last.user])
    /\ games["A"].event =
           Some([type |-> "play_card", player_id |-> last.user,
                 affected_player_id |-> NoId])

PickEvent(card) ==
    IF card = WILD_CARDS[1] THEN "wild_color_pick" ELSE "wild_color_pick_draw4"

C19_ReverseTurnsBack ==
    [][/\ \A gid \in DOMAIN games : games[gid].direction \in {1, -1}
       /\ \A user \in Users :
             (/\ AcceptedPlay(user)
              /\ CardRank(last'.card) = <<"R">>
              /\ NotLastCard(user))
             => LET game == games["A"]
                    i == Val(game.current_player_index)
                    d == game.direction
                    n == Len(game.players)
                IN /\ games'["A"].direction = d * (-1)
                   /\ games'["A"].direction \in {1, -1}
                   /\ games'["A"].event =
                          Some([type |-> "reverse", player_id |-> NoId,
                                affected_player_id |-> NoId])
                   /\ games'["A"].current_player_index = Some((i - d + n) % n)]_vars

\* two Reverse cards in a row in a room of three: the direction is clockwise
\* again, the event is reverse and the turn is one seat past the second actor
C19_Witness ==
    /\ PlayedRank(<<"R">>)
    /\ ~last.raised
    /\ Len(games["A"].players) = 3
    /\ EventIs(games["A"], "reverse")
    /\ games["A"].direction = 1
    /\ Len(games["A"].discard_pile) = 3
    /\ CardRank(games["A"].discard_pile[2]) = <<"R">>
    /\ IndexValid(games["A"])
    /\ PlayerAhead(games["A"], -1) = last.user
    /\ Len(games["A"].player_cards[last.user]) = HandSize - 1

\* the event types a call of process_turn with the given action can set
EventsOf(action) ==
    IF action = "draw_card_from_middle" THEN {"draw_card"}
    ELSE IF action = "play_card"
    THEN {"play_card", "win", "skip", "reverse", "draw2",
          "wild_color_pick", "wild_color_pick_draw4"}
    ELSE IF action = "change_color_with_wild_and_draw4" THEN {"draw4"}
    ELSE {}

\* C20: after every process_turn call on room A the event is absent or is one
\* that this call set; an event of an earlier call never survives a call,
\* also not a call that is ignored.
C20_EventClearedEveryCall ==
    [][\A user \in Users :
          TurnStep(user)
          => \/ games'["A"].event = None
             \/ /\ Val(games'["A"].event).type \in EventsOf(last'.action)
                /\ games'["A"] # games["A"]]_vars

\* this step handled draw_card_from_middle of the current player `user` of room A
DrawByCurrent(user) ==
    /\ TurnStep(user)
    /\ last'.action = "draw_card_from_middle"
    /\ IndexValid(games["A"])
    /\ games["A"].players[Val(games["A"].current_player_index) + 1] = user
    /\ user \in DOMAIN games["A"].player_cards

\* C21: a draw by the current player from a non-empty deck moves the last card
\* of the deck to the actor's hand, sets the draw_card event naming the actor,
\* changes no other hand and not the discard pile, and advances the turn one
\* step in the current direction exactly when the advance_turn flag is true.
C21_DrawMovesTopCard ==
    [][\A user \in Users :
          (DrawByCurrent(user) /\ games["A"].deck # <<>>)
          => LET game == games["A"] IN
             /\ games'["A"].deck = Front(game.deck)
             /\ games'["A"].player_cards =
                    [game.player_cards EXCEPT ![user] = Append(@, Last(game.deck))]
             /\ games'["A"].event =
                    Some([type |-> "draw_card", player_id |-> user,
                          affected_player_id |-> NoId])
             /\ games'["A"].discard_pile = game.discard_pile
             /\ games'["A"].direction = game.direction
             /\ games'["A"].current_active_color = game.current_active_color
             /\ games'["A"].current_player_index =
                    (IF last'.advance THEN Some(SeatAhead(game, 1))
                     ELSE game.current_player_index)]_vars

\* a draw with the advance_turn flag false: the actor holds one card more,
\* the deck one card less, and the actor still has the turn
C21_Witness ==
    /\ last.op = "process_turn"
    /\ last.action = "draw_card_from_middle"
    /\ ~last.advance
    /\ ~last.raised
    /\ "A" \in DOMAIN games
    /\ IndexValid(games["A"])
    /\ games["A"].players[Val(games["A"].current_player_index) + 1] = last.user
    /\ games["A"].event =
           Some([type |-> "draw_card", player_id |-> last.user,
                 affected_player_id |-> NoId])
    /\ Len(games["A"].player_cards[last.user]) = HandSize + 1
    /\ Len(games["A"].deck) + Len(games["A"].discard_pile)
       + Len(HandsConcat(games["A"].player_cards)) = Len(UnshuffledDeck)

-----------------------------------------------------------------------------
(* A deck drawn down to nothing *)

\* SpecDry: a started room of P1 and P2 who draw in turn until the deck is
\* empty; once it is, the player whose turn it is draws again or plays.
PlaysOnEmptyDeck(w) ==
    /\ InRoom(w)
    /\ Room(w).deck = <<>>
    /\ CurrentPlayerPlays(w)

InitDry ==
    /\ \E seed \in ShuffleSeeds :
          games = StartedGames(2, seed, REGULAR_CARDS[1], 0)
    /\ current_game_id =
           [w \in Sockets |-> IF w \in {"w1", "w3"} THEN Some("A") ELSE None]
    /\ sent = send_game_update(games["A"], "A", "game_started").messages
    /\ last = [NoRecord EXCEPT !.op = "start_game", !.socket = "w1", !.user = "P1",
                               !.game_id = Some("A")]
    /\ steps = 0
    /\ budget = MaxDrySteps
    /\ RegistryOfTurnSockets

NextDry ==
    \/ CurrentPlayerDraws("w1")
    \/ CurrentPlayerDraws("w3")
    \/ PlaysOnEmptyDeck("w1")
    \/ PlaysOnEmptyDeck("w3")

SpecDry == InitDry /\ [][NextDry]_vars

\* the previous call was a draw that failed on the empty deck of room A
AfterFailedDraw ==
    /\ last.op = "process_turn"
    /\ last.action = "draw_card_from_middle"
    /\ last.raised
    /\ "A" \in DOMAIN games
    /\ games["A"].deck = <<>>

\* C22: a draw by the current player from an empty deck fails and changes
\* neither the hands, the deck, the discard pile, the direction, the active
\* colour nor the turn; a play that follows, by the current player, of a wild
\* card or a card of the active colour is accepted.
C22_EmptyDeckDrawKeepsState ==
    [][\A user \in Users :
          /\ (DrawByCurrent(user) /\ games["A"].deck = <<>>)
             => /\ last'.raised
                /\ games'["A"] = [games["A"] EXCEPT !.event = None]
                /\ DOMAIN games' = DOMAIN games
          /\ (/\ AfterFailedDraw
              /\ TurnStep(user)
              /\ last'.action = "play_card"
              /\ IndexValid(games["A"])
              /\ games["A"].players[Val(games["A"].current_player_index) + 1] = user
              /\ InList(last'.card, games["A"].player_cards[user])
              /\ \/ InList(last'.card, WILD_CARDS)
                 \/ CardColor(last'.card) = games["A"].current_active_color)
             => /\ ~last'.raised
                /\ games'["A"].discard_pile =
                       Append(games["A"].discard_pile, last'.card)
                /\ Len(games'["A"].player_cards[user]) =
                       Len(games["A"].player_cards[user]) - 1]_vars

\* the deck is empty, the draw of the current player has failed and the cards
\* are where they were: one on the discard pile, the rest in the two hands
C22_Witness ==
    /\ AfterFailedDraw
    /\ IndexValid(games["A"])
    /\ games["A"].players[Val(games["A"].current_player_index) + 1] = last.user
    /\ Len(games["A"].discard_pile) = 1
    /\ Len(HandsConcat(games["A"].player_cards)) = Len(UnshuffledDeck) - 1

-----------------------------------------------------------------------------
(* Room life cycle *)

\* SpecRoom: the life cycle of room A seen by P1, P2 and P3. The store is
\* empty at first, or holds room A in state Waiting with 8 or 9 members who
\* are clients of other connections and send nothing.
OtherClients == <<"U1", "U2", "U3", "U4", "U5", "U6", "U7", "U8", "U9">>
OtherCounts == {8, 9}

RECURSIVE Lobby(_)
Lobby(k) ==
    IF k = 1 THEN create_game(EmptyDict, "A", OtherClients[1], Name(OtherClients[1])).games
    ELSE join_game(Lobby(k - 1), "A", OtherClients[k], Name(OtherClients[k])).games

\* start_game with one outcome of random.shuffle, the first or the last
\* player as the outcome of random.randint and, when the first discard is a
\* wild card, any outcome of random.choice
StartRoom(w) ==
    \E start_index \in {0, IF PlayerCount(w) > 0 THEN PlayerCount(w) - 1 ELSE 0} :
    \E i \in (IF FirstDiscardIsRegular(1, PlayerCount(w))
              THEN {1} ELSE 1..Len(REGULAR_CARDS)) :
        HandleStartGame(w, 1, REGULAR_CARDS[i], start_index)

InitRoom ==
    /\ \/ games = EmptyDict
       \/ \E k \in OtherCounts : games = Lobby(k)
    /\ current_game_id = [w \in Sockets |-> None]
    /\ sent = <<>>
    /\ last = NoRecord
    /\ steps = 0
    /\ budget = MaxRoomSteps
    /\ RegistryOfTurnSockets

NextRoom ==
    \/ HandleCreateGame("w1", "A")
    \/ \E w \in TurnSockets : HandleJoinGame(w, "A")
    \/ \E w \in TurnSockets : HandleLeaveGame(w)
    \/ \E w \in TurnSockets : StartRoom(w)
    \/ \E w \in TurnSockets : HandleEndGame(w)
    \/ \E w \in TurnSockets : HandleBackToLobby(w)
    \/ \E w \in TurnSockets : CurrentPlayerPlays(w)

SpecRoom == InitRoom /\ [][NextRoom]_vars

\* this step handled the message `op` of a socket whose room is room A
RoomCall(op) ==
    /\ steps' = steps + 1
    /\ last'.op = op
    /\ last'.socket \in TurnSockets
    /\ current_game_id[last'.socket] = Some("A")
    /\ "A" \in DOMAIN games

\* ... and did not raise
RoomStep(op) == RoomCall(op) /\ ~last'.raised

\* start_game passes its two checks on the room
StartPasses(game) ==
    /\ Len(game.players) >= 2
    /\ "playing" \notin DictValues(game.player_states)

\* C23: a successful start of a room of n players leaves the room Playing,
\* every player in state playing with 7 cards, one card on the discard pile,
\* 108 - 7n - 1 cards in the deck and the turn index within 0..n-1, also when
\* the room was started before.
C23_StartDeals ==
    [][(RoomStep("start_game") /\ StartPasses(games["A"]))
       => LET game == games'["A"]
              n == Len(game.players)
          IN /\ game.players = games["A"].players
             /\ game.state = "playing"
             /\ \A u \in ListSet(game.players) :
                   /\ game.player_states[u] = "playing"
                   /\ u \in DOMAIN game.player_cards
                   /\ Len(game.player_cards[u]) = HandSize
             /\ Len(game.discard_pile) = 1
             /\ Len(game.deck) = Len(UnshuffledDeck) - HandSize * n - 1
             /\ game.current_player_index # None
             /\ Val(game.current_player_index) \in 0..(n - 1)]_vars

JoinCall(user) ==
    /\ steps' = steps + 1
    /\ last'.op = "join_game"
    /\ last'.user = user

\* C25: a join of a room that does not exist, that is not Waiting or that has
\* 10 players raises and leaves the store unchanged; no room has more than 10
\* players and no join adds a player to a room whose state is Playing.
C25_JoinRejected ==
    [][/\ \A gid \in DOMAIN games' : Len(games'[gid].players) <= MaxPlayers
       /\ \A user \in Users :
             JoinCall(user)
             => /\ (\/ "A" \notin DOMAIN games
                    \/ games["A"].state # "waiting"
                    \/ Len(games["A"].players) >= MaxPlayers)
                   => (last'.raised /\ games' = games)
                /\ ("A" \in DOMAIN games /\ games["A"].state = "playing")
                   => games'["A"].players = games["A"].players]_vars

\* room A is Waiting and full, and the join of a client who is no member
\* has raised
C25_Witness ==
    /\ last.op = "join_game"
    /\ last.raised
    /\ "A" \in DOMAIN games
    /\ games["A"].state = "waiting"
    /\ Len(games["A"].players) = MaxPlayers
    /\ ~InList(last.user, games["A"].players)
    /\ current_game_id[last.socket] = None

\* C26: a join by a client who is already a member of room A returns the room
\* unchanged and raises no error, whatever the size or the state of the room.
C26_JoinIdempotent ==
    [][\A user \in Users :
          (/\ JoinCall(user)
           /\ "A" \in DOMAIN games
           /\ InList(user, games["A"].players))
          => (~last'.raised /\ games' = games)]_vars

\* the keys of the per-player maps of a room are players of the room
KeysArePlayers(game) ==
    /\ DOMAIN game.player_names \subseteq ListSet(game.players)
    /\ DOMAIN game.player_states \subseteq ListSet(game.players)
    /\ DOMAIN game.player_cards \subseteq ListSet(game.players)

\* C27: a leave of a member removes the member from players, player_names,
\* player_states and the hands, so that the keys of the three maps are all
\* players of the room; a leave of an absent room or of a non-member changes
\* nothing.
C27_LeaveRemovesAllEntries ==
    [][RoomCall("leave_game")
       => LET user == last'.user IN
          IF InList(user, games["A"].players)
          THEN "A" \in DOMAIN games'
               => /\ ~InList(user, games'["A"].players)
                  /\ user \notin DOMAIN games'["A"].player_names
                  /\ user \notin DOMAIN games'["A"].player_states
                  /\ user \notin DOMAIN games'["A"].player_cards
                  /\ KeysArePlayers(games["A"]) => KeysArePlayers(games'["A"])
          ELSE games' = games]_vars

\* C28: every room of the store has at least one player: the leave of the
\* last player removes the room in the same step, and no step leaves a room
\* without players in the store.
C28_NoEmptyRoom ==
    [][/\ \A gid \in DOMAIN games' : Len(games'[gid].players) > 0
       /\ (RoomCall("leave_game") /\ games["A"].players = <<last'.user>>)
          => "A" \notin DOMAIN games']_vars

\* the only player of room A has left and the store is empty
C28_Witness ==
    /\ last.op = "leave_game"
    /\ last.game_id = Some("A")
    /\ games = EmptyDict
    /\ current_game_id[last.socket] = None

-----------------------------------------------------------------------------
(* Broadcast to a room *)

\* a faulty variant of send_personal_message: no try around send_text
send_personal_message_unguarded(active, users, message, user_id, send_raises) ==
    IF user_id \notin DOMAIN users
    THEN [active |-> active, users |-> users, delivered |-> <<>>, raised |-> FALSE]
    ELSE IF send_raises
    THEN [active |-> active, users |-> users, delivered |-> <<>>, raised |-> TRUE]
    ELSE [active |-> active, users |-> users,
          delivered |-> <<[to |-> user_id, socket |-> users[user_id], message |-> message]>>,
          raised |-> FALSE]

\* send_personal_message on the registry [active, users]; send_raises is
\* whether websocket.send_text raises. The result: the registry, the message
\* handed to the transport if any, and whether the call raised.
send_personal_message(active, users, message, user_id, send_raises) ==
    IF user_id \notin DOMAIN users
    THEN [active |-> active, users |-> users, delivered |-> <<>>, raised |-> FALSE]
    ELSE LET websocket == users[user_id] IN
         IF send_raises
         THEN LET r == disconnect(active, users, websocket) IN
              [active |-> r.active, users |-> r.users, delivered |-> <<>>, raised |-> FALSE]
         ELSE [active |-> active, users |-> users,
               delivered |-> <<[to |-> user_id, socket |-> websocket, message |-> message]>>,
               raised |-> FALSE]

\* the loop of broadcast_to_room from the k-th player on; failing is the set
\* of transports whose send_text raises. An exception ends the loop.
RECURSIVE BroadcastFrom(_, _, _, _, _, _, _)
BroadcastFrom(player_ids, k, active, users, message, failing, delivered) ==
    IF k > Len(player_ids)
    THEN [active |-> active, users |-> users, delivered |-> delivered, raised |-> FALSE]
    ELSE LET player_id == player_ids[k]
             r == send_personal_message(active, users, message, player_id,
                      player_id \in DOMAIN users /\ users[player_id] \in failing)
         IN IF r.raised
            THEN [active |-> r.active, users |-> r.users,
                  delivered |-> delivered, raised |-> TRUE]
            ELSE BroadcastFrom(player_ids, k + 1, r.active, r.users, message, failing,
                               delivered \o r.delivered)

broadcast_to_room(gm, active, users, game_id, message, failing) ==
    BroadcastFrom(get_player_ids(gm, game_id), 1, active, users, message, failing, <<>>)

\* a message with no known action from a handler that is in a room: the text
\* is broadcast to the room. A send on a transport that is gone may raise.
HandleMessage(w, failing) ==
    /\ pc[w] = "open"
    /\ current_game_id[w] # None
    /\ lock = None
    /\ \A v \in failing : transport[v] # "up"
    /\ LET r == broadcast_to_room(games, active_connections, user_connections,
                                  Val(current_game_id[w]),
                                  [event |-> "message", sender_id |-> ClientId[w]],
                                  failing)
       IN /\ active_connections' = r.active
          /\ user_connections' = r.users
          /\ sent' = r.delivered
          /\ evicted' = evicted \cup ((DOMAIN active_connections) \ (DOMAIN r.active))
          /\ Handled("message", w, NoId, None, TRUE, r.raised)
    /\ UNCHANGED <<games, current_game_id, pc, lock, transport, task>>

\* SpecCast: P1, P2 and P3 are connected and in the Waiting room A; transports
\* go away, P1 connects again over w2, handlers observe the disconnect, and
\* the handlers in the room broadcast messages.
InitCast ==
    /\ games = join_game(join_game(create_game(EmptyDict, "A", "P1", Name("P1")).games,
                                   "A", "P2", Name("P2")).games,
                         "A", "P3", Name("P3")).games
    /\ current_game_id = [w \in Sockets |-> IF w \in TurnSockets THEN Some("A") ELSE None]
    /\ sent = <<>>
    /\ last = NoRecord
    /\ steps = 0
    /\ budget = MaxCastSteps
    /\ RegistryOfTurnSockets

NextCast ==
    \/ \E w \in Sockets : ClientClose(w)
    \/ ConnectBegin("w2")
    \/ \E close_raised \in BOOLEAN : ConnectFinish("w2", close_raised)
    \/ \E w \in Sockets : ObserveDisconnect(w)
    \/ \E w \in TurnSockets : \E failing \in SUBSET Sockets : HandleMessage(w, failing)

SpecCast == InitCast /\ [][NextCast]_vars


\* the users that the messages of `sent` were handed to a transport for
SentTo == {sent[i].to : i \in 1..Len(sent)}

\* C30: a send that fails raises no error in the handler and removes the
\* entry of that participant from the registry, and the other players of the
\* room are still sent the message of the same broadcast.
C30_FailedSendEvicts ==
    [][(steps' = steps + 1 /\ last'.op = "message")
       => LET player_ids == get_player_ids(games, Val(current_game_id[last'.socket]))
              listed == {u \in ListSet(player_ids) : u \in DOMAIN user_connections}
          IN /\ ~last'.raised
             /\ {sent'[i].to : i \in 1..Len(sent')} \subseteq listed
             /\ \A u \in listed :
                   LET websocket == user_connections[u] IN
                   IF u \in {sent'[i].to : i \in 1..Len(sent')}
                   THEN /\ u \in DOMAIN user_connections'
                        /\ user_connections'[u] = websocket
                   ELSE /\ transport[websocket] # "up"
                        /\ u \notin DOMAIN user_connections'
                        /\ websocket \notin DOMAIN active_connections'
             /\ \A u \in listed :
                   transport[user_connections[u]] = "up"
                   => u \in {sent'[i].to : i \in 1..Len(sent')}]_vars

\* the send to P1, the first player of the room, has failed: P1 has no entry
\* in the registry any more and P2 and P3 were sent the message
C30_Witness ==
    /\ last.op = "message"
    /\ ~last.raised
    /\ "A" \in DOMAIN games
    /\ games["A"].players = <<"P1", "P2", "P3">>
    /\ evicted # {}
    /\ "P1" \notin DOMAIN user_connections
    /\ SentTo = {"P2", "P3"}
    /\ Len(sent) = 2


-----------------------------------------------------------------------------
(* The registry lock and transport I/O *)

\* the registry operation of connection w is suspended in
\* `await old_ws.close(...)` of connect
AwaitsClose(w) == pc[w] = "connecting"

\* C31: no registry operation holds the registry lock while it awaits a send
\* or a close on a transport.
C31_LockNeverHeldAcrossIO ==
    \A w \in Sockets : AwaitsClose(w) => lock # Some(w)


-----------------------------------------------------------------------------
(* Failures of a handler: the try block of websocket_endpoint and its except
   clauses, with the messages each branch hands to send_personal_message *)

\* what a branch did: the store, the room of the handler, the messages handed
\* to send_personal_message before the branch ended, whether it raised
Outcome(gm, room, messages, raised) ==
    [games |-> gm, room |-> room, messages |-> messages, raised |-> raised]

\* broadcast_to_room as the list of its send_personal_message calls
RoomMessages(gm, game_id, message) ==
    LET player_ids == get_player_ids(gm, game_id) IN
    [i \in 1..Len(player_ids) |-> [to |-> player_ids[i], message |-> message]]

\* a faulty variant of ErrorReply: the error is broadcast to the room
ErrorReplyToRoom(w) ==
    IF current_game_id[w] # None
    THEN RoomMessages(games, Val(current_game_id[w]), [event |-> "error"])
    ELSE <<[to |-> ClientId[w], message |-> [event |-> "error"]]>>

\* `except Exception as e`: the error event for client_id
ErrorReply(w) ==
    <<[to |-> ClientId[w], message |-> [event |-> "error"]]>>

\* the branches of the dispatch
CreateGameBranch(w, new_game_id) ==
    LET gm == create_game(games, new_game_id, ClientId[w], Name(ClientId[w])).games IN
    Outcome(gm, Some(new_game_id),
            RoomMessages(gm, new_game_id, [event |-> "game_created"]), FALSE)

JoinGameBranch(w, target_id) ==
    IF target_id = ""
    THEN Outcome(games, current_game_id[w], <<>>, TRUE)
    ELSE LET r == join_game(games, target_id, ClientId[w], Name(ClientId[w])) IN
         IF r.raised
         THEN Outcome(games, current_game_id[w], <<>>, TRUE)
         ELSE Outcome(r.games, Some(target_id),
                      RoomMessages(r.games, target_id, [event |-> "player_joined"]), FALSE)

StartGameBranch(w, seed, random_color, start_index) ==
    IF current_game_id[w] = None
    THEN Outcome(games, None, <<>>, FALSE)
    ELSE LET gid == Val(current_game_id[w])
             r == start_game(games, gid, seed, random_color, start_index)
         IN IF r.raised
            THEN Outcome(games, current_game_id[w], <<>>, TRUE)
            ELSE LET u == send_game_update(r.games[gid], gid, "game_started") IN
                 Outcome(r.games, current_game_id[w], u.messages, u.raised)

ProcessTurnBranch(w, turn_action, card, advance) ==
    IF current_game_id[w] = None
    THEN Outcome(games, None, <<>>, FALSE)
    ELSE LET gid == Val(current_game_id[w])
             r == process_turn(games, ClientId[w], gid, turn_action, card, advance)
         IN IF r.raised
            THEN Outcome(r.games, current_game_id[w], <<>>, TRUE)
            ELSE LET u == send_game_update(r.games[gid], gid, "game_update") IN
                 Outcome(r.games, current_game_id[w], u.messages, u.raised)

\* one received message handled to its end. Every transport of these runs is
\* up, so send_text does not raise and each message for a registered user is
\* handed to that user's transport.
Receive(w, op, action, card, advance, outcome) ==
    /\ pc[w] = "open"
    /\ games' = outcome.games
    /\ current_game_id' = [current_game_id EXCEPT ![w] = outcome.room]
    /\ LET out == IF outcome.raised THEN outcome.messages \o ErrorReply(w)
                  ELSE outcome.messages
           posted == SelectSeq(out, LAMBDA m : m.to \in DOMAIN user_connections)
       IN sent' = [i \in 1..Len(posted) |->
                     [to |-> posted[i].to, socket |-> user_connections[posted[i].to],
                      message |-> posted[i].message]]
    /\ Handled(op, w, action, card, advance, outcome.raised)
    /\ UNCHANGED <<pc, netVars>>

ReceiveCreateGame(w, new_game_id) ==
    /\ new_game_id \notin DOMAIN games
    /\ Receive(w, "create_game", NoId, None, TRUE, CreateGameBranch(w, new_game_id))

ReceiveJoinGame(w, target_id) ==
    /\ pc[w] = "open"
    /\ Receive(w, "join_game", NoId, None, TRUE, JoinGameBranch(w, target_id))

ReceiveStartGame(w) ==
    /\ pc[w] = "open"
    /\ Receive(w, "start_game", NoId, None, TRUE, StartGameBranch(w, 1, REGULAR_CARDS[1], 0))

ReceiveProcessTurn(w, turn_action) ==
    /\ pc[w] = "open"
    /\ Receive(w, "process_turn", turn_action, None, TRUE,
               ProcessTurnBranch(w, turn_action, None, TRUE))

\* json.loads raises JSONDecodeError: `pass`
ReceiveMalformed(w) ==
    /\ pc[w] = "open"
    /\ Receive(w, "malformed", NoId, None, TRUE, Outcome(games, current_game_id[w], <<>>, FALSE))

\* SpecErr: P1, P2 and P3 are connected; the store is empty or holds room A
\* with 9 members who are clients of other connections.
InitErr ==
    /\ \/ games = EmptyDict
       \/ games = Lobby(9)
    /\ current_game_id = [w \in Sockets |-> None]
    /\ sent = <<>>
    /\ last = NoRecord
    /\ steps = 0
    /\ budget = MaxErrSteps
    /\ RegistryOfTurnSockets

NextErr ==
    \/ \E w \in TurnSockets : \E new_game_id \in {"A", "B"} : ReceiveCreateGame(w, new_game_id)
    \/ \E w \in TurnSockets : \E target_id \in {"", "A", "B"} : ReceiveJoinGame(w, target_id)
    \/ \E w \in TurnSockets : ReceiveStartGame(w)
    \/ \E w \in TurnSockets : \E turn_action \in {NoId, "draw_card_from_middle"} :
           ReceiveProcessTurn(w, turn_action)
    \/ \E w \in TurnSockets : ReceiveMalformed(w)

SpecErr == InitErr /\ [][NextErr]_vars


\* C32: a failure while a handler processes a message sends one error event,
\* to the participant the message came from and to nobody else, and leaves the
\* handler open for later messages; malformed JSON sends nothing and changes
\* nothing.
C32_ErrorToOriginatorOnly ==
    [][(steps' = steps + 1 /\ last'.op \in {"create_game", "join_game", "start_game",
                                            "process_turn", "malformed"})
       => /\ pc'[last'.socket] = "open"
          /\ last'.raised
             => /\ Len(sent') = 1
                /\ sent'[1].to = last'.user
                /\ sent'[1].message.event = "error"
          /\ ~last'.raised
             => \A i \in 1..Len(sent') : sent'[i].message.event # "error"
          /\ last'.op = "malformed"
             => /\ ~last'.raised
                /\ sent' = <<>>
                /\ games' = games
                /\ current_game_id' = current_game_id]_vars

\* P3's join of the started room A of P1 and P2 has failed: the one message
\* sent is the error event for P3
C32_Witness ==
    /\ last.op = "join_game"
    /\ last.raised
    /\ last.user = "P3"
    /\ "A" \in DOMAIN games
    /\ games["A"].state = "playing"
    /\ games["A"].players = <<"P1", "P2">>
    /\ Len(sent) = 1
    /\ sent[1].to = "P3"
    /\ sent[1].message.event = "error"
    /\ pc[last.socket] = "open"


-----------------------------------------------------------------------------
(* The turn-advance function on its own *)

\* one call of advance_turn_counter: its arguments and what it returned
CallOfAdvance(current_player_index, player_count, is_clockwise) ==
    [op |-> "advance_turn_counter",
     current_player_index |-> current_player_index,
     player_count |-> player_count,
     is_clockwise |-> is_clockwise,
     result |-> advance_turn_counter(current_player_index, player_count, is_clockwise)]

\* SpecAdvance: any number of players up to the size of a full room and any
\* index of one of them; each step advances the index the last call returned,
\* in either direction
InitAdvance ==
    /\ \E player_count \in 1..MaxPlayers :
       \E current_player_index \in 0..(player_count - 1) :
          last = [op |-> "input",
                  current_player_index |-> current_player_index,
                  player_count |-> player_count,
                  is_clockwise |-> TRUE,
                  result |-> current_player_index]
    /\ games = EmptyDict
    /\ current_game_id = [w \in Sockets |-> None]
    /\ sent = <<>>
    /\ steps = 0
    /\ budget = MaxAdvanceSteps
    /\ RegistryOfTurnSockets

AdvanceTurnCounter(is_clockwise) ==
    /\ steps < budget
    /\ steps' = steps + 1
    /\ last' = CallOfAdvance(last.result, last.player_count, is_clockwise)
    /\ UNCHANGED <<games, current_game_id, sent, budget, pc, netVars>>

NextAdvance == \E is_clockwise \in BOOLEAN : AdvanceTurnCounter(is_clockwise)

SpecAdvance == InitAdvance /\ [][NextAdvance]_vars

\* C33: for n players, an index i of 0..n-1 and a direction d of +1 or -1,
\* advance_turn_counter returns (i + d) mod n, which is an index of 0..n-1
\* (0 going backward gives n-1, n-1 going forward gives 0), and advancing
\* the result in the opposite direction gives i again.
C33_AdvanceIsModular ==
    last.op = "advance_turn_counter"
    => LET i == last.current_player_index
           n == last.player_count
           d == IF last.is_clockwise THEN 1 ELSE -1
       IN /\ n >= 1 /\ i \in 0..(n - 1)
          /\ last.result = (i + d + n) % n
          /\ last.result \in 0..(n - 1)
          /\ (i = 0 /\ ~last.is_clockwise) => last.result = n - 1
          /\ (i = n - 1 /\ last.is_clockwise) => last.result = 0
          /\ advance_turn_counter(last.result, n, ~last.is_clockwise) = i

\* the wrap from index 0 backward in a full room, reached by a step forward
\* from the last seat and a step backward from 0
C33_Witness ==
    /\ last.op = "advance_turn_counter"
    /\ steps >= 2
    /\ last.player_count = MaxPlayers
    /\ last.current_player_index = 0
    /\ ~last.is_clockwise
    /\ last.result = MaxPlayers - 1


-----------------------------------------------------------------------------
(* Handlers suspended in send_game_update. The methods of GameManager are
   plain functions: a handler runs one from its call to its return with no
   suspension point. send_game_update is a coroutine that awaits a send for
   each player of its loop; while it is suspended there the event loop runs
   the handlers of other connections. *)

\* the GameState that the loop body builds for player_id; every field but
\* event, game_id and current_player is read from the Game object when the
\* body runs
UpdateFor(game, t, player_id) ==
    [event |-> t.event,
     game_id |-> t.game_id,
     current_active_color |-> game.current_active_color,
     direction |-> game.direction,
     top_card |-> IF Len(game.discard_pile) > 0 THEN Last(game.discard_pile) ELSE None,
     current_player |-> t.current_player_id,
     hand |-> IF player_id \in DOMAIN game.player_cards
              THEN game.player_cards[player_id] ELSE <<>>,
     card_counts |-> [other_player_id \in ListSet(game.players) \ {player_id} |->
                         Len(game.player_cards[other_player_id])],
     game_event |-> game.event,
     player_states |-> game.player_states]

\* one turn of `for player_id in players`, up to its await: k players taken
LoopStep(game, t) ==
    LET player_id == game.players[t.k + 1] IN
    [t EXCEPT !.k = @ + 1,
              !.built = Append(@, [to |-> player_id,
                                   message |-> UpdateFor(game, t, player_id)])]

\* the locals of send_game_update on entry to its loop; `after` is history:
\* the room as the operation of this handler left it
EnterLoop(game, game_id, event) ==
    [game_id |-> game_id, event |-> event,
     current_player_id |-> game.players[Val(game.current_player_index) + 1],
     k |-> 0, built |-> <<>>, after |-> game]

\* a faulty variant of TurnOutcome: the operation is evaluated on the room
\* that a suspended handler's operation wrote, whatever was written since
TurnOutcomeOnStaleRoom(w, turn_action, card, advance) ==
    LET gid == Val(current_game_id[w])
        busy == {v \in Sockets : task[v] # None /\ Val(task[v]).game_id = gid}
        room == IF busy = {} THEN games[gid]
                ELSE Val(task[CHOOSE v \in busy :
                                 \A u \in busy : Val(task[u]).after.deck = Val(task[v]).after.deck
                                                  \/ Len(Val(task[u]).after.deck)
                                                       <= Len(Val(task[v]).after.deck)]).after
    IN process_turn([games EXCEPT ![gid] = room], ClientId[w], gid, turn_action, card, advance)

\* game_manager.process_turn called by the handler w on the store as it is
TurnOutcome(w, turn_action, card, advance) ==
    process_turn(games, ClientId[w], Val(current_game_id[w]), turn_action, card, advance)

\* action == "process_turn" up to the first suspension: process_turn, then
\* send_game_update builds the message of the first player and awaits its send
AsyncProcessTurn(w, turn_action, card, advance) ==
    /\ pc[w] = "open"
    /\ task[w] = None
    /\ current_game_id[w] # None
    /\ LET gid == Val(current_game_id[w])
           r == TurnOutcome(w, turn_action, card, advance)
           game == r.games[gid]
       IN /\ games' = r.games
          /\ IF r.raised \/ ~IndexValid(game)
             THEN /\ UNCHANGED task
                  /\ Handled("process_turn", w, turn_action, card, advance, TRUE)
             ELSE /\ task' = [task EXCEPT ![w] =
                                 Some(LoopStep(game, EnterLoop(game, gid, "game_update")))]
                  /\ Handled("process_turn", w, turn_action, card, advance, FALSE)
    /\ UNCHANGED <<current_game_id, pc, sent, active_connections, user_connections,
                   lock, transport, evicted>>

\* the send that send_game_update of w awaited has completed: the loop takes
\* the next player of the list, or ends and the handler is back at receive_text
ResumeSend(w) ==
    /\ task[w] # None
    /\ LET t == Val(task[w])
           game == games[t.game_id]
       IN IF t.k < Len(game.players)
          THEN /\ task' = [task EXCEPT ![w] = Some(LoopStep(game, t))]
               /\ UNCHANGED sent
          ELSE /\ task' = [task EXCEPT ![w] = None]
               /\ UNCHANGED sent
    /\ UNCHANGED <<games, current_game_id, pc, last, steps, budget, active_connections,
                   user_connections, lock, transport, evicted>>

\* action == "leave_game" of a handler that is at receive_text
AsyncLeaveGame(w) ==
    /\ task[w] = None
    /\ HandleLeaveGame(w)

\* the turn messages of the handlers: any member draws, the player whose turn
\* it is plays a card of the hand
AsyncDraw(w) ==
    /\ InRoom(w)
    /\ AsyncProcessTurn(w, "draw_card_from_middle", None, TRUE)

AsyncPlay(w) ==
    /\ IsCurrentPlayer(w)
    /\ \E card \in HandCards(w) : AsyncProcessTurn(w, "play_card", card, TRUE)

\* SpecAsync: a room of P1 and P2 that was just started; the members draw,
\* play and leave, and the sends of their updates complete in any order.
InitAsync ==
    /\ \E player_count \in {2} :
       \E start_index \in 0..(player_count - 1) :
          /\ games = StartedGames(player_count, 1, REGULAR_CARDS[1], start_index)
          /\ current_game_id =
                 [w \in Sockets |->
                     IF w \in TurnSockets /\ InList(ClientId[w], games["A"].players)
                     THEN Some("A") ELSE None]
    /\ sent = <<>>
    /\ last = NoRecord
    /\ steps = 0
    /\ budget = MaxAsyncSteps
    /\ RegistryOfTurnSockets

NextAsync ==
    \/ \E w \in TurnSockets : AsyncDraw(w)
    \/ \E w \in TurnSockets : AsyncPlay(w)
    \/ \E w \in TurnSockets : ResumeSend(w)
    \/ \E w \in TurnSockets : AsyncLeaveGame(w)

SpecAsync == InitAsync /\ [][NextAsync]_vars


BuiltBy(w) == IF task[w] = None THEN <<>> ELSE Val(task[w]).built

\* C37: the messages built for one processed action describe one room state:
\* the same current player, top card, active colour and event for every
\* recipient, and a recipient's own hand has the size the others are told.
C37_OneStatePerUpdate ==
    \A w \in TurnSockets :
        LET built == BuiltBy(w) IN
        \A i, j \in 1..Len(built) :
            LET a == built[i].message
                b == built[j].message
            IN /\ a.current_player = b.current_player
               /\ a.top_card = b.top_card
               /\ a.current_active_color = b.current_active_color
               /\ a.game_event = b.game_event
               /\ (built[i].to \in DOMAIN b.card_counts)
                  => Len(a.hand) = b.card_counts[built[i].to]


-----------------------------------------------------------------------------
(* After a win *)

\* a play has emptied a hand of the started room and no reset or start has
\* happened since
Won(game) ==
    /\ game.state = "playing"
    /\ \E u \in ListSet(game.players) :
          u \in DOMAIN game.player_cards /\ game.player_cards[u] = <<>>

\* a member of a room that is won sends draw_card_from_middle
DrawsAfterWin(w) ==
    /\ InRoom(w)
    /\ Won(Room(w))
    /\ HandleProcessTurn(w, "draw_card_from_middle", None, TRUE)

\* SpecOver: the game of SpecWin, played one message past the win
InitOver ==
    /\ \E seed \in WinSeeds :
          games = StartedGames(2, seed, REGULAR_CARDS[1], 0)
    /\ current_game_id =
           [w \in Sockets |-> IF w \in {"w1", "w3"} THEN Some("A") ELSE None]
    /\ sent = send_game_update(games["A"], "A", "game_started").messages
    /\ last = [NoRecord EXCEPT !.op = "start_game", !.socket = "w1", !.user = "P1",
                               !.game_id = Some("A")]
    /\ steps = 0
    /\ budget = MaxOverSteps
    /\ RegistryOfTurnSockets

NextOver ==
    \/ PlaysInTurn("w1")
    \/ AnswersColor("w1")
    \/ CurrentPlayerDraws("w3")
    \/ \E w \in {"w1", "w3"} : DrawsAfterWin(w)

SpecOver == InitOver /\ [][NextOver]_vars

\* C35: once a play has emptied a hand, every later turn message of any
\* member leaves hands, deck, discard pile, direction and
\* current_player_index as they are.
C35_NoTransitionAfterWin ==
    [][(steps' = steps + 1 /\ last'.op = "process_turn"
        /\ "A" \in DOMAIN games /\ Won(games["A"]))
       => /\ games'["A"].player_cards = games["A"].player_cards
          /\ games'["A"].deck = games["A"].deck
          /\ games'["A"].discard_pile = games["A"].discard_pile
          /\ games'["A"].direction = games["A"].direction
          /\ games'["A"].current_player_index = games["A"].current_player_index]_vars


-----------------------------------------------------------------------------
(* The two maps of the registry *)

\* C36: the two maps of the registry are inverse to each other in every
\* state: user p maps to transport w exactly when w maps to p (so the
\* disconnect of a superseded transport finds no entry and leaves the entry
\* of the newer transport alone).
C36_MapsMutuallyInverse ==
    /\ \A w \in DOMAIN active_connections :
          /\ active_connections[w] \in DOMAIN user_connections
          /\ user_connections[active_connections[w]] = w
    /\ \A p \in DOMAIN user_connections :
          /\ user_connections[p] \in DOMAIN active_connections
          /\ active_connections[user_connections[p]] = p


-----------------------------------------------------------------------------
(* Start after a reset *)

\* C38: a room in state Waiting has no player whose state is playing, and a
\* start of a Waiting room of at least 2 players (after a reset or an end as
\* well) begins a game: state Playing and 7 cards for each player.
C38_StartAfterReset ==
    [][/\ \A g \in DOMAIN games' :
             games'[g].state = "waiting"
             => \A u \in DOMAIN games'[g].player_states :
                   games'[g].player_states[u] # "playing"
       /\ (RoomCall("start_game") /\ games["A"].state = "waiting"
           /\ Len(games["A"].players) >= 2)
          => /\ games'["A"].state = "playing"
             /\ \A u \in ListSet(games["A"].players) :
                   /\ u \in DOMAIN games'["A"].player_cards
                   /\ Len(games'["A"].player_cards[u]) = HandSize]_vars


-----------------------------------------------------------------------------
(* The host of a room *)

\* C39: the host of every room is one of its players; when the host leaves
\* and players remain, the first of the remaining players is the host after
\* the same operation, and the leave of another player leaves the host as it
\* was.
C39_HostIsAPlayer ==
    [][/\ \A g \in DOMAIN games' : InList(games'[g].host_id, games'[g].players)
       /\ (RoomCall("leave_game") /\ "A" \in DOMAIN games')
          => IF last'.user = games["A"].host_id
             THEN /\ games'["A"].host_id = games'["A"].players[1]
                  /\ games'["A"].players = ListRemove(games["A"].players, last'.user)
             ELSE games'["A"].host_id = games["A"].host_id]_vars

\* P1 created room A, others joined, and P1 has left: the first of the
\* remaining players is the host
C39_Witness ==
    /\ last.op = "leave_game"
    /\ last.user = "P1"
    /\ "A" \in DOMAIN games
    /\ ~InList("P1", games["A"].players)
    /\ games["A"].host_id \in {"P2", "P3"}
    /\ games["A"].host_id = games["A"].players[1]


-----------------------------------------------------------------------------
(* Forced draws from a short deck *)

\* the deck holds fewer cards than a WildDrawFour deals
ShortDeck(game) == Len(game.deck) < 4

\* the cards of a deck in the order deck.pop() hands them out
FromTop(deck) == [i \in 1..Len(deck) |-> deck[Len(deck) - i + 1]]

\* the player whose turn it is plays a DrawTwo or a WildDrawFour of the hand
\* on a short deck
PlaysForcedDraw(w) ==
    /\ IsCurrentPlayer(w)
    /\ ShortDeck(Room(w))
    /\ ~AwaitingColor(Room(w), ClientId[w])
    /\ \E card \in HandCards(w) :
          /\ CardRank(card) = <<"D", "2">> \/ card = WILD_CARDS[2]
          /\ HandleProcessTurn(w, "play_card", card, TRUE)

\* the player who played the WildDrawFour sends the colour
ChoosesForDrawFour(w) ==
    /\ IsCurrentPlayer(w)
    /\ ShortDeck(Room(w))
    /\ EventIs(Room(w), "wild_color_pick_draw4")
    /\ AwaitingColor(Room(w), ClientId[w])
    /\ HandleProcessTurn(w, "change_color_with_wild_and_draw4", REGULAR_CARDS[1], TRUE)

\* SpecShort: P1 and P2 draw the deck of a started room down, and on a deck
\* of fewer than 4 cards they play DrawTwo and WildDrawFour cards
InitShort ==
    /\ \E seed \in ShuffleSeeds :
          games = StartedGames(2, seed, REGULAR_CARDS[1], 0)
    /\ current_game_id =
           [w \in Sockets |-> IF w \in {"w1", "w3"} THEN Some("A") ELSE None]
    /\ sent = send_game_update(games["A"], "A", "game_started").messages
    /\ last = [NoRecord EXCEPT !.op = "start_game", !.socket = "w1", !.user = "P1",
                               !.game_id = Some("A")]
    /\ steps = 0
    /\ budget = MaxShortSteps
    /\ RegistryOfTurnSockets

NextShort ==
    \/ \E w \in {"w1", "w3"} : CurrentPlayerDraws(w)
    \/ \E w \in {"w1", "w3"} : PlaysForcedDraw(w)
    \/ \E w \in {"w1", "w3"} : ChoosesForDrawFour(w)

SpecShort == InitShort /\ [][NextShort]_vars

\* C40: a forced draw on a deck that is too short raises nothing: an accepted
\* DrawTwo with fewer than 2 cards in the deck, or a
\* change_color_with_wild_and_draw4 with fewer than 4, gives the victim the
\* cards that remain, leaves the deck empty, sets the draw2 / draw4 event and
\* advances the turn.
C40_ForcedDrawOnShortDeck ==
    [][/\ \A user \in Users :
             (/\ AcceptedPlay(user)
              /\ CardRank(last'.card) = <<"D", "2">>
              /\ NotLastCard(user)
              /\ Len(games["A"].deck) < 2)
             => LET game == games["A"]
                    victim == PlayerAhead(game, 1)
                IN /\ ~last'.raised
                   /\ games'["A"].player_cards[victim] =
                          game.player_cards[victim] \o FromTop(game.deck)
                   /\ games'["A"].deck = <<>>
                   /\ games'["A"].event =
                          Some([type |-> "draw2", player_id |-> user,
                                affected_player_id |-> victim])
                   /\ games'["A"].current_player_index = Some(SeatAhead(game, 1))
       /\ (/\ ChoiceStep("change_color_with_wild_and_draw4")
           /\ IndexValid(games["A"])
           /\ Len(games["A"].deck) < 4)
          => LET game == games["A"]
                 actor == PlayerAhead(game, 0)
                 victim == PlayerAhead(game, 1)
             IN /\ ~last'.raised
                /\ games'["A"].player_cards =
                       [game.player_cards EXCEPT ![victim] = @ \o FromTop(game.deck)]
                /\ games'["A"].deck = <<>>
                /\ games'["A"].event =
                       Some([type |-> "draw4", player_id |-> actor,
                             affected_player_id |-> victim])
                /\ games'["A"].current_player_index = Some(SeatAhead(game, 1))]_vars


\* P1 or P2 played a WildDrawFour on a deck of 3 cards and sent the colour:
\* after the 90 draws, the play and the choice the deck is empty, the event
\* is draw4 and the turn has moved to the victim
C40_Witness ==
    /\ steps = 92
    /\ last.op = "process_turn"
    /\ last.action = "change_color_with_wild_and_draw4"
    /\ ~last.raised
    /\ "A" \in DOMAIN games
    /\ Len(games["A"].discard_pile) = 2
    /\ Last(games["A"].discard_pile) = WILD_CARDS[2]
    /\ games["A"].deck = <<>>
    /\ EventIs(games["A"], "draw4")
    /\ Val(games["A"].event).affected_player_id = PlayerAhead(games["A"], 0)

====
